---- MODULE Spec2Model ----
(***************************************************************************)
(* The AnalysisResults component of speakeasy-frontend: the score engine   *)
(* calculateOverallScore (src/unnamed/part_001, lines 25-182) applied to   *)
(* the `results` prop, an arbitrary JSON-like value.                       *)
(*                                                                         *)
(* JavaScript values are tagged records [t |-> type, v |-> payload].       *)
(* Numbers are IEEE 754 doubles, computed with the rounding of each        *)
(* operation.  Strings are sequences of one-character strings, so that     *)
(* toLowerCase, trim and string-to-number conversion are computed.         *)
(*                                                                         *)
(* The AudioAnalyzer page (src/app/page.tsx) holds `results` as state,     *)
(* with file, isAnalyzing and error; request is the position of the        *)
(* asynchronous handleAnalyze: "none", or "pending" while it awaits the    *)
(* response.  recorder is the LiveAudioRecorder the page renders           *)
(* (src/components/analysis-results.tsx, lines 107-383): its state         *)
(* isRecording, isAnalyzing and hasPermission, the number of `stop` events *)
(* of stopped MediaRecorders that are still to be delivered (stopEvents)   *)
(* and the number of analyzeAudio calls awaiting their response            *)
(* (requests).                                                             *)
(***************************************************************************)
EXTENDS Integers, Sequences, FiniteSets, TLC

VARIABLES results, pc, ext, num, sub, acc, overallScore, history,
          file, isAnalyzing, error, request, recorder

vars ==
    <<results, pc, ext, num, sub, acc, overallScore, history, file, isAnalyzing, error, request,
      recorder>>
\* The state of the page other than `results`.
page == <<file, isAnalyzing, error, request, recorder>>

(***************************************************************************)
(* Numbers: IEEE 754 binary64, as JavaScript's Number.                     *)
(*                                                                         *)
(* A finite number is s * m * 2^e with s in {-1, 0, 1} and, unless it is   *)
(* zero, 2^52 <= m < 2^53.  The significand m is held in four limbs of 14  *)
(* bits, least significant first, so that every intermediate product fits  *)
(* the integers of the checker.  Each operation computes the exact result  *)
(* and rounds it to nearest, ties to even.  Subnormals, overflow to        *)
(* Infinity and the sign of zero are not modelled: the numbers drawn stay  *)
(* far from both ends of the range.                                        *)
(***************************************************************************)
AbsInt(i) == IF i < 0 THEN -i ELSE i

B == 16384
Pow2Tab == <<1, 2, 4, 8, 16, 32, 64, 128, 256, 512, 1024, 2048, 4096, 8192, 16384>>
Pow2(r) == Pow2Tab[r + 1]

Zero4 == <<0, 0, 0, 0>>

\* Limb i of M, 0 outside it.
Limb(M, i) == IF i >= 1 /\ i <= Len(M) THEN M[i] ELSE 0
Pad8(M) == [i \in 1..8 |-> Limb(M, i)]

BitLen14(x) ==
    IF x >= 128
    THEN IF x >= 2048
         THEN IF x >= 8192 THEN 14 ELSE IF x >= 4096 THEN 13 ELSE 12
         ELSE IF x >= 1024 THEN 11 ELSE IF x >= 512 THEN 10 ELSE IF x >= 256 THEN 9 ELSE 8
    ELSE IF x >= 8
         THEN IF x >= 64 THEN 7 ELSE IF x >= 32 THEN 6 ELSE IF x >= 16 THEN 5 ELSE 4
         ELSE IF x >= 4 THEN 3 ELSE IF x >= 2 THEN 2 ELSE x
\* The number of bits of the i low limbs of M (0 for zero).
RECURSIVE BitLenBelow(_, _)
BitLenBelow(M, i) ==
    IF i = 0 THEN 0
    ELSE IF M[i] # 0 THEN 14 * (i - 1) + BitLen14(M[i])
    ELSE BitLenBelow(M, i - 1)
BitLen(M) == BitLenBelow(M, Len(M))

\* The four low limbs of M shifted right by sh bits.
Shr4(M, sh) ==
    [i \in 1..4 |->
        (Limb(M, i + (sh \div 14)) \div Pow2(sh % 14))
        + (Limb(M, i + (sh \div 14) + 1) % Pow2(sh % 14)) * Pow2(14 - (sh % 14))]
\* M shifted left by t bits, in n limbs.
Shl(M, t, n) ==
    [i \in 1..n |->
        ((Limb(M, i - (t \div 14)) * Pow2(t % 14)) % B)
        + (Limb(M, i - (t \div 14) - 1) \div Pow2(14 - (t % 14)))]
BitAt(M, b) == (Limb(M, (b \div 14) + 1) \div Pow2(b % 14)) % 2
\* Some bit below bit b of M is set.
LowBits(M, b) ==
    \/ \E i \in 1..(b \div 14) : Limb(M, i) # 0
    \/ Limb(M, (b \div 14) + 1) % Pow2(b % 14) # 0

RECURSIVE AddLimbs(_, _, _, _)
AddLimbs(a, b, i, c) ==
    IF i > Len(a) THEN <<>>
    ELSE <<(a[i] + b[i] + c) % B>> \o AddLimbs(a, b, i + 1, (a[i] + b[i] + c) \div B)
\* a + b, both of the same length, the sum fitting it
BigAdd(a, b) == AddLimbs(a, b, 1, 0)
RECURSIVE SubLimbs(_, _, _, _)
SubLimbs(a, b, i, c) ==
    IF i > Len(a) THEN <<>>
    ELSE <<(a[i] - b[i] - c + B) % B>>
         \o SubLimbs(a, b, i + 1, IF a[i] - b[i] - c < 0 THEN 1 ELSE 0)
\* a - b for a >= b, both of the same length
BigSub(a, b) == SubLimbs(a, b, 1, 0)
RECURSIVE CmpLimbs(_, _, _)
CmpLimbs(a, b, i) ==
    IF i = 0 THEN 0
    ELSE IF a[i] > b[i] THEN 1 ELSE IF a[i] < b[i] THEN -1 ELSE CmpLimbs(a, b, i - 1)
\* -1, 0, 1 as a < b, a = b, a > b, both of the same length
BigCmp(a, b) == CmpLimbs(a, b, Len(a))
\* The limbs of the sum of cols[j] * B^(j-1) over j >= i, plus the carry c,
\* one limb more than columns.
RECURSIVE Carry(_, _, _)
Carry(cols, i, c) ==
    IF i > Len(cols) THEN <<c>>
    ELSE <<(cols[i] + c) % B>> \o Carry(cols, i + 1, (cols[i] + c) \div B)
\* a * q for a number a of four limbs and one limb q, in five limbs
BigMulLimb(a, q) == Carry(<<a[1] * q, a[2] * q, a[3] * q, a[4] * q>>, 1, 0)
\* a * b for two numbers of four limbs, in eight limbs
BigMul44(a, b) ==
    Carry(<<a[1] * b[1],
            a[1] * b[2] + a[2] * b[1],
            a[1] * b[3] + a[2] * b[2] + a[3] * b[1],
            a[1] * b[4] + a[2] * b[3] + a[3] * b[2] + a[4] * b[1],
            a[2] * b[4] + a[3] * b[3] + a[4] * b[2],
            a[3] * b[4] + a[4] * b[3],
            a[4] * b[4]>>, 1, 0)

FZero == [k |-> "fin", s |-> 0, m |-> Zero4, e |-> 0]
NaN == [k |-> "nan", s |-> 0, m |-> Zero4, e |-> 0]
PosInf == [k |-> "inf", s |-> 1, m |-> Zero4, e |-> 0]
NegInf == [k |-> "inf", s |-> -1, m |-> Zero4, e |-> 0]

\* q + 1 for a significand q
Inc4(q) ==
    IF q[1] < B - 1 THEN <<q[1] + 1, q[2], q[3], q[4]>>
    ELSE IF q[2] < B - 1 THEN <<0, q[2] + 1, q[3], q[4]>>
    ELSE IF q[3] < B - 1 THEN <<0, 0, q[3] + 1, q[4]>>
    ELSE <<0, 0, 0, q[4] + 1>>

\* s * q * 2^e for 2^52 <= q <= 2^53
Normal(s, q, e) ==
    IF q[4] = 2048 THEN [k |-> "fin", s |-> s, m |-> <<0, 0, 0, 1024>>, e |-> e + 1]
    ELSE [k |-> "fin", s |-> s, m |-> q, e |-> e]
\* M has sh > 0 bits more than 53 and q is M without its sh low bits: q or
\* q + 1, whichever is nearer, the even one at a tie.
RoundTo53(s, M, E, sticky, sh, q) ==
    Normal(s,
           IF /\ BitAt(M, sh - 1) = 1
              /\ LowBits(M, sh - 1) \/ sticky \/ q[1] % 2 = 1
           THEN Inc4(q) ELSE q,
           E + sh)
\* M has len bits.
RoundLen(s, M, E, sticky, len) ==
    IF len = 0 THEN FZero
    ELSE IF len <= 53
    THEN [k |-> "fin", s |-> s, m |-> Shl(M, 53 - len, 4), e |-> E - (53 - len)]
    ELSE RoundTo53(s, M, E, sticky, len - 53, Shr4(M, len - 53))
\* The number nearest to s * (M + f) * 2^E, ties to even, where 0 <= f < 1 and
\* f > 0 exactly if sticky.
FRound(s, M, E, sticky) == RoundLen(s, M, E, sticky, BitLen(M))

\* The integer i, |i| < 2^31, as a number: it needs no rounding.
IntToNum(i) ==
    IF i = 0 THEN FZero
    ELSE [k |-> "fin", s |-> IF i < 0 THEN -1 ELSE 1,
          m |-> Shl(<<AbsInt(i) % B, (AbsInt(i) \div B) % B, AbsInt(i) \div (B * B)>>,
                    53 - BitLen(<<AbsInt(i) % B, (AbsInt(i) \div B) % B, AbsInt(i) \div (B * B)>>),
                    4),
          e |-> BitLen(<<AbsInt(i) % B, (AbsInt(i) \div B) % B, AbsInt(i) \div (B * B)>>) - 53]
\* The integer literals of the program (0, 1, 2, 5, ..., 150), converted once.
SmallNums == [i \in 0..150 |-> IntToNum(i)] @@ <<>>
Int2Num(i) == SmallNums[i]

IsFin(x) == x.k = "fin"
IsNaNNum(x) == x.k = "nan"
IsZero(x) == x.k = "fin" /\ x.s = 0
InfOf(s) == IF s > 0 THEN PosInf ELSE NegInf

\* x < y for finite x, y
FinLt(x, y) ==
    IF x.s # y.s THEN x.s < y.s
    ELSE IF x.s = 0 THEN FALSE
    ELSE IF x.e # y.e THEN (x.s > 0) = (x.e < y.e)
    ELSE IF x.s > 0 THEN BigCmp(x.m, y.m) < 0 ELSE BigCmp(x.m, y.m) > 0

\* IEEE comparisons: every comparison with NaN is false.
NumLt(x, y) ==
    IF IsNaNNum(x) \/ IsNaNNum(y) THEN FALSE
    ELSE IF IsFin(x) /\ IsFin(y) THEN FinLt(x, y)
    ELSE IF IsFin(x) THEN y.s > 0
    ELSE IF IsFin(y) THEN x.s < 0
    ELSE x.s < y.s
NumEq(x, y) == ~IsNaNNum(x) /\ ~IsNaNNum(y) /\ x = y
NumLe(x, y) == NumLt(x, y) \/ NumEq(x, y)
NumGt(x, y) == NumLt(y, x)
NumGe(x, y) == NumLe(y, x)

NumNeg(x) == IF IsNaNNum(x) THEN NaN ELSE [x EXCEPT !.s = -x.s]

\* x + y for finite x, y other than zero, x.e >= y.e: a is the significand of
\* x at the exponent of y and b the significand of y, both in eight limbs.
AddAligned(x, y, a, b) ==
    FRound(IF x.s = y.s \/ BigCmp(a, b) >= 0 THEN x.s ELSE y.s,
           IF x.s = y.s THEN BigAdd(a, b)
           ELSE IF BigCmp(a, b) >= 0 THEN BigSub(a, b) ELSE BigSub(b, a),
           y.e, FALSE)
FinAddOrdered(x, y) ==
    IF x.e - y.e > 56 THEN x ELSE AddAligned(x, y, Shl(x.m, x.e - y.e, 8), Pad8(y.m))
FinAdd(x, y) ==
    IF x.s = 0 THEN y
    ELSE IF y.s = 0 THEN x
    ELSE FinAddOrdered(IF x.e >= y.e THEN x ELSE y, IF x.e >= y.e THEN y ELSE x)
FinMul(x, y) ==
    IF x.s = 0 \/ y.s = 0 THEN FZero
    ELSE FRound(x.s * y.s, BigMul44(x.m, y.m), x.e + y.e, FALSE)

\* The largest limb q' <= q with d * q' <= R (d of four limbs, R of five).
RECURSIVE QuotLimb(_, _, _)
QuotLimb(R, d, q) ==
    IF BigCmp(BigMulLimb(d, q), R) > 0 THEN QuotLimb(R, d, q - 1) ELSE q
\* The quotient limb q of R by d: the remainder R - d * q, and q put before
\* the quotient limbs Q (least significant first).
DivLimb(R, d, q, Q) == [r |-> SubSeq(BigSub(R, BigMulLimb(d, q)), 1, 4), q |-> <<q>> \o Q]
\* One step of the long division by d (four limbs, the top one >= B / 2):
\* st.r < d is the remainder so far, st.q the quotient limbs so far; a zero
\* limb of the dividend is brought down, and the quotient limb is estimated
\* from the two top limbs.
DivStep(st, d) ==
    LET R == <<0>> \o st.r
    IN  DivLimb(R, d,
                QuotLimb(R, d, IF R[5] >= d[4] THEN B - 1 ELSE (R[5] * B + R[4]) \div d[4]),
                st.q)
\* s * (the quotient, with n limbs still to compute) * 2^E, rounded.
RECURSIVE LongDiv(_, _, _, _, _)
LongDiv(s, E, st, d, n) ==
    IF n = 0 THEN FRound(s, Pad8(st.q), E, st.r # Zero4)
    ELSE LongDiv(s, E, DivStep(st, d), d, n - 1)
\* x / y for finite x, y other than zero: floor(x.m * 2^56 / y.m), rounded.
FinDiv(x, y) ==
    LET n == Shl(x.m, 3, 4)
        d == Shl(y.m, 3, 4)
    IN  LongDiv(x.s * y.s, x.e - y.e - 56,
                [r |-> IF BigCmp(n, d) >= 0 THEN BigSub(n, d) ELSE n,
                 q |-> <<IF BigCmp(n, d) >= 0 THEN 1 ELSE 0>>], d, 4)

NumAdd(x, y) ==
    IF IsNaNNum(x) \/ IsNaNNum(y) THEN NaN
    ELSE IF IsFin(x) /\ IsFin(y) THEN FinAdd(x, y)
    ELSE IF IsFin(x) THEN y
    ELSE IF IsFin(y) THEN x
    ELSE IF x.s = y.s THEN x ELSE NaN
NumSub(x, y) == NumAdd(x, NumNeg(y))
NumMul(x, y) ==
    IF IsNaNNum(x) \/ IsNaNNum(y) THEN NaN
    ELSE IF IsFin(x) /\ IsFin(y) THEN FinMul(x, y)
    ELSE IF x.s = 0 \/ y.s = 0 THEN NaN
    ELSE InfOf(x.s * y.s)
NumDiv(x, y) ==
    IF IsNaNNum(x) \/ IsNaNNum(y) THEN NaN
    ELSE IF IsFin(x) /\ IsFin(y) THEN
        IF y.s # 0 THEN (IF x.s = 0 THEN FZero ELSE FinDiv(x, y))
        ELSE IF x.s = 0 THEN NaN ELSE InfOf(x.s)
    ELSE IF IsFin(y) THEN InfOf(x.s * (IF y.s < 0 THEN -1 ELSE 1))
    ELSE IF IsFin(x) THEN FZero
    ELSE NaN

\* The decimal literal n/d (JSON.parse and Number round a literal to the
\* nearest number, as the division of the two integers does).
Rat(n, d) == NumDiv(IntToNum(n), IntToNum(d))

\* Math.abs, Math.max, Math.min
MathAbs(x) == IF IsNaNNum(x) THEN NaN ELSE [x EXCEPT !.s = AbsInt(x.s)]
MathMax(x, y) == IF IsNaNNum(x) \/ IsNaNNum(y) THEN NaN
                 ELSE IF NumLt(x, y) THEN y ELSE x
MathMin(x, y) == IF IsNaNNum(x) \/ IsNaNNum(y) THEN NaN
                 ELSE IF NumLt(y, x) THEN y ELSE x
\* Math.round: the nearest integer, a tie going to the larger one.
MathRound(x) ==
    IF ~IsFin(x) \/ x.s = 0 \/ x.e >= 0 THEN x
    ELSE IF -x.e >= 54 THEN FZero
    ELSE LET int == Shr4(x.m, -x.e)
             up == /\ BitAt(x.m, -x.e - 1) = 1
                   /\ x.s > 0 \/ LowBits(x.m, -x.e - 1)
         IN  FRound(x.s, Pad8(IF up THEN Inc4(int) ELSE int), 0, FALSE)

(***************************************************************************)
(* JavaScript values                                                       *)
(***************************************************************************)
Undefined == [t |-> "undefined"]
Null == [t |-> "null"]
JBool(b) == [t |-> "boolean", v |-> b]
JNum(x) == [t |-> "number", v |-> x]
JInt(i) == JNum(IntToNum(i))
JRat(n, d) == JNum(Rat(n, d))
JStr(s) == [t |-> "string", v |-> s]
JArr(a) == [t |-> "array", v |-> a]
JObj(f) == [t |-> "object", v |-> f]
\* A member inherited from Object.prototype (constructor, toString, ...).
JInherited == [t |-> "function"]

\* typeof v
TypeOf(v) ==
    CASE v.t = "undefined" -> "undefined"
      [] v.t = "null" -> "object"
      [] v.t = "array" -> "object"
      [] v.t = "object" -> "object"
      [] OTHER -> v.t

\* v == null   (true of null and undefined only)
IsNullish(v) == v.t \in {"undefined", "null"}

\* ToBoolean(v): what `!v`, `v && ...` test
Truthy(v) ==
    CASE v.t \in {"undefined", "null"} -> FALSE
      [] v.t = "boolean" -> v.v
      [] v.t = "number" -> ~IsNaNNum(v.v) /\ ~IsZero(v.v)
      [] v.t = "string" -> Len(v.v) > 0
      [] OTHER -> TRUE

\* Object.prototype.hasOwnProperty.call(v, k) for a metric key k: only a keyed
\* record has own properties with such names (an array or a string owns
\* indices and `length`, a boxed number or boolean owns nothing).
HasOwn(v, k) == v.t = "object" /\ k \in DOMAIN v.v

\* v[k]: the own property, else undefined (Object.prototype has no metric key).
Get(v, k) == IF HasOwn(v, k) THEN v.v[k] ELSE Undefined

\* Object.keys(v).length
KeysLength(v) ==
    CASE v.t = "object" -> Cardinality(DOMAIN v.v)
      [] v.t = "array" -> Len(v.v)
      [] v.t = "string" -> Len(v.v)
      [] OTHER -> 0

(***************************************************************************)
(* Strings: sequences of characters                                        *)
(***************************************************************************)
Digit == {"0", "1", "2", "3", "4", "5", "6", "7", "8", "9"}
DigitVal(c) ==
    CASE c = "0" -> 0 [] c = "1" -> 1 [] c = "2" -> 2 [] c = "3" -> 3
      [] c = "4" -> 4 [] c = "5" -> 5 [] c = "6" -> 6 [] c = "7" -> 7
      [] c = "8" -> 8 [] c = "9" -> 9

UpperToLower ==
    [c \in {"A", "B", "C", "D", "E", "F", "G", "H", "I", "J", "K", "L", "M",
            "N", "O", "P", "Q", "R", "S", "T", "U", "V", "W", "X", "Y", "Z"} |->
        CASE c = "A" -> "a" [] c = "B" -> "b" [] c = "C" -> "c" [] c = "D" -> "d"
          [] c = "E" -> "e" [] c = "F" -> "f" [] c = "G" -> "g" [] c = "H" -> "h"
          [] c = "I" -> "i" [] c = "J" -> "j" [] c = "K" -> "k" [] c = "L" -> "l"
          [] c = "M" -> "m" [] c = "N" -> "n" [] c = "O" -> "o" [] c = "P" -> "p"
          [] c = "Q" -> "q" [] c = "R" -> "r" [] c = "S" -> "s" [] c = "T" -> "t"
          [] c = "U" -> "u" [] c = "V" -> "v" [] c = "W" -> "w" [] c = "X" -> "x"
          [] c = "Y" -> "y" [] c = "Z" -> "z"]

\* String.prototype.toLowerCase
ToLowerCase(s) ==
    [i \in 1..Len(s) |-> IF s[i] \in DOMAIN UpperToLower THEN UpperToLower[s[i]] ELSE s[i]]

WhiteSpace == {" "}

RECURSIVE TrimStart(_)
TrimStart(s) ==
    IF s # <<>> /\ Head(s) \in WhiteSpace THEN TrimStart(Tail(s)) ELSE s
RECURSIVE TrimEnd(_)
TrimEnd(s) ==
    IF s # <<>> /\ s[Len(s)] \in WhiteSpace THEN TrimEnd(SubSeq(s, 1, Len(s) - 1)) ELSE s
\* String.prototype.trim
Trim(s) == TrimEnd(TrimStart(s))

RECURSIVE DigitsValue(_)
DigitsValue(s) ==
    IF s = <<>> THEN 0 ELSE 10 * DigitsValue(SubSeq(s, 1, Len(s) - 1)) + DigitVal(s[Len(s)])
RECURSIVE Pow10(_)
Pow10(e) == IF e = 0 THEN 1 ELSE 10 * Pow10(e - 1)

sInfinity == <<"I", "n", "f", "i", "n", "i", "t", "y">>

\* An unsigned decimal literal: digits, optionally one "." and digits, at
\* least one digit in all.  (Exponents and 0x/0o/0b literals are outside the
\* strings the model draws.)
UnsignedToNumber(s) ==
    LET dots == {i \in 1..Len(s) : s[i] = "."}
        p == IF dots = {} THEN Len(s) + 1 ELSE CHOOSE i \in dots : TRUE
        ip == SubSeq(s, 1, p - 1)
        fp == SubSeq(s, p + 1, Len(s))
    IN  IF s = sInfinity THEN PosInf
        ELSE IF Cardinality(dots) > 1 \/ Len(ip) + Len(fp) = 0
                \/ \E i \in 1..Len(s) : s[i] \notin Digit \cup {"."}
        THEN NaN
        ELSE Rat(DigitsValue(ip) * Pow10(Len(fp)) + DigitsValue(fp), Pow10(Len(fp)))

\* ToNumber applied to a string (StringToNumber): surrounding white space is
\* dropped, the empty string is 0, anything that is no numeric literal is NaN.
StringToNumber(s) ==
    LET t == Trim(s)
    IN  IF t = <<>> THEN Int2Num(0)
        ELSE IF Head(t) = "-" THEN NumNeg(UnsignedToNumber(Tail(t)))
        ELSE UnsignedToNumber(IF Head(t) = "+" THEN Tail(t) ELSE t)

\* Number(v).  An array converts through its string form: [] is "", a
\* one-element array is the string form of its element, a longer one holds a
\* comma; a plain object is "[object Object]".
RECURSIVE ToNumber(_)
ToNumber(v) ==
    CASE v.t = "undefined" -> NaN
      [] v.t = "null" -> Int2Num(0)
      [] v.t = "boolean" -> IF v.v THEN Int2Num(1) ELSE Int2Num(0)
      [] v.t = "number" -> v.v
      [] v.t = "string" -> StringToNumber(v.v)
      [] v.t = "array" ->
            IF Len(v.v) = 0 THEN Int2Num(0)
            ELSE IF Len(v.v) > 1 THEN NaN
            ELSE IF v.v[1].t \in {"undefined", "null"} THEN Int2Num(0)
            ELSE IF v.v[1].t \in {"number", "string", "array"} THEN ToNumber(v.v[1])
            ELSE NaN
      [] OTHER -> NaN

\* The global isNaN(v): it converts with Number first.
isNaN(v) == IsNaNNum(ToNumber(v))

(***************************************************************************)
(* calculateOverallScore: helpers                                          *)
(***************************************************************************)
s_excellent == <<"e", "x", "c", "e", "l", "l", "e", "n", "t">>
s_high == <<"h", "i", "g", "h">>
s_positive == <<"p", "o", "s", "i", "t", "i", "v", "e">>
s_neutral == <<"n", "e", "u", "t", "r", "a", "l">>

\* const clip = (v, min = 0, max = 100) => Math.max(min, Math.min(max, v))
clip(v, min, max) == MathMax(min, MathMin(max, v))
clip100(v) == clip(v, Int2Num(0), Int2Num(100))

ratingMap ==
    (s_excellent :> 95) @@
    (<<"v", "e", "r", "y", " ", "g", "o", "o", "d">> :> 88) @@
    (<<"g", "o", "o", "d">> :> 78) @@
    (<<"f", "a", "i", "r">> :> 65) @@
    (<<"p", "o", "o", "r">> :> 45) @@
    (<<"v", "e", "r", "y", " ", "p", "o", "o", "r">> :> 25) @@
    (s_high :> 85) @@
    (<<"m", "e", "d", "i", "u", "m">> :> 65) @@
    (<<"l", "o", "w">> :> 45) @@
    (s_positive :> 80) @@
    (s_neutral :> 60) @@
    (<<"n", "e", "g", "a", "t", "i", "v", "e">> :> 40)

\* Names every object literal inherits from Object.prototype; ratingMap[key]
\* finds them although ratingMap does not define them.
s_constructor == <<"c", "o", "n", "s", "t", "r", "u", "c", "t", "o", "r">>
ObjectPrototypeMembers ==
    {s_constructor,
     <<"t", "o", "S", "t", "r", "i", "n", "g">>,
     <<"v", "a", "l", "u", "e", "O", "f">>,
     <<"h", "a", "s", "O", "w", "n", "P", "r", "o", "p", "e", "r", "t", "y">>,
     <<"i", "s", "P", "r", "o", "t", "o", "t", "y", "p", "e", "O", "f">>,
     <<"p", "r", "o", "p", "e", "r", "t", "y", "I", "s", "E", "n", "u", "m", "e", "r", "a", "b", "l", "e">>,
     <<"t", "o", "L", "o", "c", "a", "l", "e", "S", "t", "r", "i", "n", "g">>,
     <<"_", "_", "p", "r", "o", "t", "o", "_", "_">>}

\* ratingMap[key] with a default of 50 for a key it does not hold.
ratingMapGetDefault(key) ==
    IF key \in DOMAIN ratingMap THEN JInt(ratingMap[key]) ELSE JInt(50)

\* ratingMap[key]
ratingMapGet(key) ==
    IF key \in DOMAIN ratingMap THEN JInt(ratingMap[key])
    ELSE IF key \in ObjectPrototypeMembers THEN JInherited
    ELSE Undefined

\* normalizeNumberOrRating without the 1-5 scale: (1, 10] is read as 1-10.
normalizeNumberOrRatingNoFive(v) ==
    IF IsNullish(v) THEN Undefined
    ELSE IF TypeOf(v) = "string" THEN ratingMapGet(Trim(ToLowerCase(v.v)))
    ELSE IF TypeOf(v) = "number" THEN
        IF NumGe(v.v, Int2Num(0)) /\ NumLe(v.v, Int2Num(1)) THEN JNum(NumMul(v.v, Int2Num(100)))
        ELSE IF NumGt(v.v, Int2Num(1)) /\ NumLe(v.v, Int2Num(10))
            THEN JNum(NumMul(NumDiv(v.v, Int2Num(10)), Int2Num(100)))
        ELSE JNum(clip100(v.v))
    ELSE Undefined

normalizeNumberOrRating(v) ==
    IF IsNullish(v) THEN Undefined
    ELSE IF TypeOf(v) = "string" THEN ratingMapGet(Trim(ToLowerCase(v.v)))
    ELSE IF TypeOf(v) = "number" THEN
        IF NumGe(v.v, Int2Num(0)) /\ NumLe(v.v, Int2Num(1)) THEN JNum(NumMul(v.v, Int2Num(100)))
        ELSE IF NumGt(v.v, Int2Num(1)) /\ NumLe(v.v, Int2Num(5))
            THEN JNum(NumMul(NumDiv(v.v, Int2Num(5)), Int2Num(100)))
        ELSE IF NumGt(v.v, Int2Num(5)) /\ NumLe(v.v, Int2Num(10))
            THEN JNum(NumMul(NumDiv(v.v, Int2Num(10)), Int2Num(100)))
        ELSE IF NumGt(v.v, Int2Num(10)) /\ NumLe(v.v, Int2Num(100)) THEN JNum(clip100(v.v))
        ELSE JNum(clip100(v.v))
    ELSE Undefined

\* analysisData?.metrics
MetricsOf(d) == IF IsNullish(d) THEN Undefined ELSE Get(d, "metrics")

\* fromKeys looking into `metrics` before the top level.
RECURSIVE fromKeysMetricsFirst(_, _)
fromKeysMetricsFirst(d, keys) ==
    IF keys = <<>> THEN Undefined
    ELSE LET k == Head(keys)
         IN  IF Truthy(MetricsOf(d)) /\ HasOwn(MetricsOf(d), k)
                /\ ~IsNullish(Get(MetricsOf(d), k))
             THEN Get(MetricsOf(d), k)
             ELSE IF Truthy(d) /\ HasOwn(d, k) /\ ~IsNullish(Get(d, k)) THEN Get(d, k)
             ELSE fromKeysMetricsFirst(d, Tail(keys))

RECURSIVE fromKeys(_, _)
fromKeys(d, keys) ==
    IF keys = <<>> THEN Undefined
    ELSE LET k == Head(keys)
         IN  IF Truthy(d) /\ HasOwn(d, k) /\ ~IsNullish(Get(d, k)) THEN Get(d, k)
             ELSE IF Truthy(MetricsOf(d)) /\ HasOwn(MetricsOf(d), k)
                     /\ ~IsNullish(Get(MetricsOf(d), k))
                 THEN Get(MetricsOf(d), k)
             ELSE fromKeys(d, Tail(keys))

\* triangularScore with the signed distance in place of the absolute one.
triangularScoreSigned(value, target, tolerance) ==
    IF IsNaNNum(value) THEN Undefined
    ELSE LET delta == NumSub(value, Int2Num(target))
             ratio == clip(NumSub(Int2Num(1), NumDiv(delta, Int2Num(tolerance))),
                           Int2Num(0), Int2Num(1))
         IN  JNum(MathRound(NumMul(ratio, Int2Num(100))))

\* value is a number here (every caller passes the result of Number(...)).
triangularScore(value, target, tolerance) ==
    IF IsNaNNum(value) THEN Undefined
    ELSE LET delta == MathAbs(NumSub(value, Int2Num(target)))
             ratio == clip(NumSub(Int2Num(1), NumDiv(delta, Int2Num(tolerance))),
                           Int2Num(0), Int2Num(1))
         IN  JNum(MathRound(NumMul(ratio, Int2Num(100))))

(***************************************************************************)
(* calculateOverallScore: derived metrics and sub-scores                   *)
(***************************************************************************)
\* !x and `x && ...` on a number
NumTruthy(x) == Truthy(JNum(x))

\* The key lists of the fromKeys(...) calls, by the name of the looked-up value.
Aliases ==
    [wordCount |-> <<"wordCount", "words">>,
     durationSec |-> <<"duration", "durationSec", "seconds">>,
     wpm |-> <<"wordsPerMinute", "wpm", "paceWpm", "speech_rate", "rate">>,
     fillerRate |-> <<"fillerWordRate", "fillerRate">>,
     fillerCount |-> <<"fillerWordCount", "fillerCount", "umUhCount">>,
     pausesPerMinute |-> <<"pausesPerMinute", "pauseRate", "pauses_pm">>,
     volume |-> <<"volume", "loudness", "rms">>,
     sentiment |-> <<"sentiment", "polarity">>,
     clarity |-> <<"clarity">>,
     confidence |-> <<"confidence">>,
     articulation |-> <<"articulation">>,
     fluency |-> <<"fluency">>,
     coherence |-> <<"coherence">>,
     engagement |-> <<"engagement">>,
     pronunciation |-> <<"pronunciation">>,
     intonation |-> <<"intonation">>]

\* fromKeys(...) with the key list of the value named g
lookup(d, g) == fromKeys(d, Aliases[g])

\* The values the fromKeys(...) calls return, by name.
extracted(d) == [g \in DOMAIN Aliases |-> lookup(d, g)]

\* Lines 82-94, over the extracted values e.
wordCount(e) == ToNumber(e.wordCount)
durationSec(e) == ToNumber(e.durationSec)
\* if ((!wpm || isNaN(wpm)) && wordCount && durationSec && durationSec > 0)
\*     wpm = wordCount / durationSec * 60
wpmOr(found, wc, ds) ==
    IF (~NumTruthy(found) \/ IsNaNNum(found))
       /\ NumTruthy(wc) /\ NumTruthy(ds) /\ NumGt(ds, Int2Num(0))
    THEN NumMul(NumDiv(wc, ds), Int2Num(60))
    ELSE found
wpm(e) == wpmOr(ToNumber(e.wpm), wordCount(e), durationSec(e))
fillerCount(e) == ToNumber(e.fillerCount)
\* if ((isNaN(fillerRate) || !isFinite(fillerRate)) && fillerCount && wordCount)
\*     fillerRate = fillerCount / wordCount
fillerRateOr(found, fc, wc) ==
    IF (IsNaNNum(found) \/ ~IsFin(found)) /\ NumTruthy(fc) /\ NumTruthy(wc)
    THEN NumDiv(fc, wc)
    ELSE found
fillerRate(e) == fillerRateOr(ToNumber(e.fillerRate), fillerCount(e), wordCount(e))
pausesPerMinute(e) == ToNumber(e.pausesPerMinute)

\* The numeric locals.
numerics(e) ==
    [wordCount |-> wordCount(e), durationSec |-> durationSec(e), wpm |-> wpm(e),
     fillerRate |-> fillerRate(e), fillerCount |-> fillerCount(e),
     pausesPerMinute |-> pausesPerMinute(e)]

DirectMetrics ==
    {"clarity", "confidence", "articulation", "fluency", "coherence", "engagement",
     "pronunciation", "intonation"}

\* direct with numbers outside 0..100 rejected as absent.
directStrict(e, m) ==
    IF TypeOf(e[m]) = "number"
       /\ (NumLt(e[m].v, Int2Num(0)) \/ NumGt(e[m].v, Int2Num(100)))
    THEN Undefined
    ELSE normalizeNumberOrRating(e[m])
\* const clarity = normalizeNumberOrRating(fromKeys("clarity")), and the like
direct(e, m) == normalizeNumberOrRating(e[m])

\* Lines 109-128, over the extracted values e and the numeric locals nm.
paceScore(nm) == IF IsFin(nm.wpm) THEN triangularScore(nm.wpm, 150, 50) ELSE Undefined
\* pausesScore with the target 5 in place of 6.
pausesScoreFive(nm) ==
    IF IsFin(nm.pausesPerMinute) THEN triangularScore(nm.pausesPerMinute, 5, 5) ELSE Undefined
pausesScore(nm) ==
    IF IsFin(nm.pausesPerMinute) THEN triangularScore(nm.pausesPerMinute, 6, 5) ELSE Undefined
\* a ?? b
Coalesce(a, b) == IF IsNullish(a) THEN b ELSE a
\* volumeScore with the two operands of ?? exchanged.
volumeScoreTriangleFirst(e) ==
    Coalesce(triangularScore(ToNumber(e.volume), 60, 25), normalizeNumberOrRating(e.volume))
volumeScore(e) ==
    Coalesce(normalizeNumberOrRating(e.volume), triangularScore(ToNumber(e.volume), 60, 25))
\* fillerScore with the drop-off reaching 0 at 10% in place of 5%.
fillerScoreTen(nm) ==
    IF IsFin(nm.fillerRate)
    THEN LET pct == clip100(NumMul(nm.fillerRate, Int2Num(100)))
         IN  JNum(clip100(NumSub(Int2Num(100), NumMul(NumDiv(pct, Int2Num(10)), Int2Num(100)))))
    ELSE Undefined
fillerScore(nm) ==
    IF IsFin(nm.fillerRate)
    THEN LET pct == clip100(NumMul(nm.fillerRate, Int2Num(100)))
         IN  JNum(clip100(NumSub(Int2Num(100), NumMul(NumDiv(pct, Int2Num(5)), Int2Num(100)))))
    ELSE Undefined
sentimentScore(e) ==
    IF TypeOf(e.sentiment) = "string"
    THEN Coalesce(ratingMapGet(ToLowerCase(e.sentiment.v)), JInt(60))
    ELSE IF TypeOf(e.sentiment) = "number"
    THEN JNum(clip100(NumMul(NumDiv(NumAdd(e.sentiment.v, Int2Num(1)), Int2Num(2)), Int2Num(100))))
    ELSE Undefined

(***************************************************************************)
(* calculateOverallScore: weighted aggregation                             *)
(***************************************************************************)
weights ==
    [clarity |-> Rat(12, 100), confidence |-> Rat(12, 100), fluency |-> Rat(1, 10),
     articulation |-> Rat(8, 100), coherence |-> Rat(8, 100), engagement |-> Rat(6, 100),
     pronunciation |-> Rat(8, 100), intonation |-> Rat(6, 100), pace |-> Rat(12, 100),
     volume |-> Rat(6, 100), filler |-> Rat(6, 100), pauses |-> Rat(6, 100),
     sentiment |-> Rat(1, 10)]

\* The order of the add(...) calls.
AddOrder ==
    <<"clarity", "confidence", "fluency", "articulation", "coherence", "engagement",
      "pronunciation", "intonation", "pace", "volume", "filler", "pauses", "sentiment">>

\* The sub-score handed to add(..., key).
subScore(e, nm, key) ==
    CASE key \in DirectMetrics -> direct(e, key)
      [] key = "pace" -> paceScore(nm)
      [] key = "volume" -> volumeScore(e)
      [] key = "filler" -> fillerScore(nm)
      [] key = "pauses" -> pausesScore(nm)
      [] key = "sentiment" -> sentimentScore(e)

\* const acc = { sum: 0, w: 0, n: 0 }
acc0 == [sum |-> Int2Num(0), w |-> Int2Num(0), n |-> 0]

\* acc.sum += clip(score) * weights[key]; acc.w += weights[key]; acc.n += 1,
\* with w the value of weights[key]
addWeighted(a, score, w) ==
    [sum |-> NumAdd(a.sum, NumMul(clip100(score.v), w)), w |-> NumAdd(a.w, w), n |-> a.n + 1]
add(a, score, key) ==
    IF IsNullish(score) \/ isNaN(score) THEN a ELSE addWeighted(a, score, weights[key])

RECURSIVE addAll(_, _, _)
addAll(a, scores, i) ==
    IF i > Len(AddOrder) THEN a
    ELSE addAll(add(a, scores[AddOrder[i]], AddOrder[i]), scores, i + 1)

\* The key-count fallback with >= in place of >.
keyCountScoreInclusive(d) ==
    IF KeysLength(d) >= 3 THEN 70 ELSE IF KeysLength(d) >= 1 THEN 60 ELSE 50
keyCountScore(d) == IF KeysLength(d) > 3 THEN 70 ELSE IF KeysLength(d) > 1 THEN 60 ELSE 50

overallWeighted(a) == NumDiv(a.sum, a.w)
baseline == 60
\* The blend factors of one and of two contributing metrics exchanged.
blendFactorSwapped ==
    [n \in 0..Len(AddOrder) |->
        IF n = 1 THEN Rat(3, 10) ELSE IF n = 2 THEN Rat(6, 10) ELSE Int2Num(0)]
\* acc.n === 1 ? 0.6 : acc.n === 2 ? 0.3 : 0
blendFactor ==
    [n \in 0..Len(AddOrder) |->
        IF n = 1 THEN Rat(6, 10) ELSE IF n = 2 THEN Rat(3, 10) ELSE Int2Num(0)]
mixed(a) ==
    NumAdd(NumMul(overallWeighted(a), NumSub(Int2Num(1), blendFactor[a.n])),
           NumMul(Int2Num(baseline), blendFactor[a.n]))

\* The return statement with Math.round left out.
unrounded(a) == clip100(mixed(a))
\* return Math.round(clip(mixed, 0, 100))
rounded(a) == MathRound(clip100(mixed(a)))

\* const isJsonResponse = typeof results === "object" && results !== null
isJsonResponse(r) == TypeOf(r) = "object" /\ r.t # "null"

(***************************************************************************)
(* The component: one evaluation of calculateOverallScore(results)         *)
(*   results       the prop, any JSON-like value                           *)
(*   pc            "render" before the evaluation, "done" after it         *)
(*   ext           the raw value each fromKeys(...) call returned          *)
(*   num           the numeric locals wordCount, durationSec, wpm,         *)
(*                 fillerRate, fillerCount, pausesPerMinute                *)
(*   sub           the thirteen sub-scores handed to add(...)              *)
(*   acc           the accumulator { sum, w, n }                           *)
(*   overallScore  the returned score                                      *)
(***************************************************************************)
Metrics == {AddOrder[i] : i \in 1..Len(AddOrder)}

subScores(e, nm) == [key \in Metrics |-> subScore(e, nm, key)]

\* Line 26: if (!isJsonResponse || !analysisData) return 50
ReturnDefault ==
    /\ pc = "render"
    /\ ~isJsonResponse(results) \/ ~Truthy(results)
    /\ overallScore' = JInt(50)
    /\ pc' = "done"
    /\ UNCHANGED <<results, ext, num, sub, acc, history, page>>

\* The evaluation with an accumulator that outlives it (acc hoisted out of
\* calculateOverallScore).
ComputedStale ==
    /\ pc = "render"
    /\ ~(~isJsonResponse(results) \/ ~Truthy(results))
    /\ ext' = extracted(results)
    /\ num' = numerics(ext')
    /\ sub' = subScores(ext', num')
    /\ acc' = addAll(acc, sub', 1)
    /\ pc' = "done"
    /\ UNCHANGED <<results, history, page>>
\* Lines 28-167: the locals of one evaluation, each bound afresh.
Computed ==
    /\ pc = "render"
    /\ ~(~isJsonResponse(results) \/ ~Truthy(results))
    /\ ext' = extracted(results)
    /\ num' = numerics(ext')
    /\ sub' = subScores(ext', num')
    /\ acc' = addAll(acc0, sub', 1)
    /\ pc' = "done"
    /\ UNCHANGED <<results, history, page>>

\* Lines 169-172: nothing contributed, the score is read off the key count.
ReturnKeyCount ==
    /\ Computed
    /\ NumEq(acc'.w, Int2Num(0))
    /\ overallScore' = JInt(keyCountScore(results))

\* ReturnMixed with the key-count score as the baseline in place of 60.
ReturnMixedKeyCount ==
    /\ Computed
    /\ ~NumEq(acc'.w, Int2Num(0))
    /\ overallScore' =
           JNum(MathRound(clip100(
               NumAdd(NumMul(overallWeighted(acc'), NumSub(Int2Num(1), blendFactor[acc'.n])),
                      NumMul(Int2Num(keyCountScore(results)), blendFactor[acc'.n])))))

\* Lines 174-181: the weighted mean, blended with the baseline and rounded.
ReturnMixed ==
    /\ Computed
    /\ ~NumEq(acc'.w, Int2Num(0))
    /\ overallScore' = JNum(rounded(acc'))

Next == ReturnDefault \/ ReturnKeyCount \/ ReturnMixed

(***************************************************************************)
(* The inputs: JSON-like values drawn from bounded families                *)
(***************************************************************************)
\* Bounds of the families.
MaxPad == 4         \* unrecognized top-level keys added to a record
MaxArrayLen == 4    \* length of a top-level array
MaxMetrics == 3     \* metrics present together in a multi-metric record
GridMax == 12       \* direct-metric grid: 0, 0.1, ... up to GridMax
PaceSpan == 60      \* pace grid: 150 - PaceSpan .. 150 + PaceSpan, in quarters
EqualMax == 14      \* equal sub-scores: 10.5, 11.5, ... up to EqualMax + 0.5

s_empty == <<>>
s_banana == <<"b", "a", "n", "a", "n", "a">>

\* Values of every JSON type (and the numbers NaN and Infinity).
Numbers ==
    {JInt(-5), JInt(0), JRat(8, 10), JInt(1), JInt(4), JInt(6), JInt(8), JInt(55),
     JInt(150), JInt(5500), JNum(NaN), JNum(PosInf)}
Strings ==
    {JStr(s_excellent), JStr(s_banana), JStr(s_empty), JStr(s_constructor), JStr(sInfinity),
     JStr(<<" ", "G", "o", "o", "d", " ">>),
     JStr(<<"E", "X", "C", "E", "L", "L", "E", "N", "T">>),
     JStr(<<"P", "o", "s", "i", "t", "i", "v", "e">>),
     JStr(<<" ", "p", "o", "s", "i", "t", "i", "v", "e">>),
     JStr(<<"1", "5", "0">>), JStr(<<" ", "6", " ">>), JStr(<<"-", "1">>),
     JStr(<<"0", ".", "8">>)}
Malformed ==
    {JBool(TRUE), JBool(FALSE), JArr(<<>>), JArr(<<JInt(6)>>), JArr(<<JInt(1), JInt(2)>>),
     JObj(<<>>), JObj("a" :> JInt(1))}
Values == Numbers \cup Strings \cup Malformed \cup {Null}

PadKeys == <<"a", "b", "c", "d", "e", "f">>
RecognizedKeys == UNION {{Aliases[g][i] : i \in 1..Len(Aliases[g])} : g \in DOMAIN Aliases}

\* The record f with p unrecognized keys added.
Padded(f, p) ==
    f @@ [k \in {PadKeys[i] : i \in 1..p} |-> JInt(CHOOSE i \in 1..p : PadKeys[i] = k)]

\* Everything that is no keyed record: primitives and arrays.
NonRecords ==
    {Undefined, Null, JBool(TRUE), JBool(FALSE), JInt(0), JInt(42), JNum(NaN),
     JStr(s_empty), JStr(<<"a", "b", "c">>), JStr(s_excellent)}
    \cup {JArr([i \in 1..n |-> JInt(1)]) : n \in 0..MaxArrayLen}
    \cup {JArr(<<JObj("clarity" :> JInt(80))>>)}

\* { k: v } for every key and every value, with 0..MaxPad unrecognized keys.
DrawSingleKey ==
    \E k \in RecognizedKeys \cup {"metrics"}, v \in Values, p \in 0..MaxPad :
        results = JObj(Padded(k :> v, p))

\* Only unrecognized keys.
DrawPadOnly == \E p \in 0..MaxPad : results = JObj(Padded(<<>>, p))

\* { k: v1, metrics: { k2: v2 } } with k and k2 keys of the same looked-up
\* value, { metrics: { k2: v2 } } alone, and a `metrics` that is no record.
NestedValues ==
    {Null, JInt(0), JInt(4), JInt(150), JRat(8, 10), JStr(s_excellent), JStr(s_banana),
     JBool(TRUE)}
AliasPairs ==
    UNION {{<<Aliases[g][i], Aliases[g][j]>> : i, j \in 1..Len(Aliases[g])} : g \in DOMAIN Aliases}
DrawNested ==
    \/ \E kk \in AliasPairs, v1 \in NestedValues, v2 \in NestedValues :
          results = JObj((kk[1] :> v1) @@ ("metrics" :> JObj(kk[2] :> v2)))
    \/ \E k \in RecognizedKeys, v \in NestedValues :
          results = JObj("metrics" :> JObj(k :> v))
    \/ \E k \in {"clarity", "wordsPerMinute"}, v \in NestedValues,
          m \in {Null, JInt(5), JStr(<<"a", "b", "c">>), JBool(TRUE), JArr(<<>>)} :
          results = JObj((k :> v) @@ ("metrics" :> m))

\* Records in which up to MaxMetrics metrics are present together, each under
\* its first key with a value that yields a sub-score.
MetricKey ==
    [clarity |-> "clarity", confidence |-> "confidence", fluency |-> "fluency",
     articulation |-> "articulation", coherence |-> "coherence",
     engagement |-> "engagement", pronunciation |-> "pronunciation",
     intonation |-> "intonation", pace |-> "wordsPerMinute", volume |-> "volume",
     filler |-> "fillerWordRate", pauses |-> "pausesPerMinute", sentiment |-> "sentiment"]
MetricValues(m) ==
    CASE m \in DirectMetrics -> {JStr(s_excellent), JInt(0)}
      [] m = "pace" -> {JInt(150), JInt(100)}
      [] m = "volume" -> {JInt(60), JStr(s_high)}
      [] m = "filler" -> {JInt(0), JRat(2, 100)}
      [] m = "pauses" -> {JInt(6), JInt(4)}
      [] m = "sentiment" -> {JStr(s_positive), JInt(-1)}
MetricSets == {M \in SUBSET Metrics : Cardinality(M) \in 1..MaxMetrics}
\* The records over the metrics M: one per choice of a value for each.
RECURSIVE RecordsOver(_)
RecordsOver(M) ==
    IF M = {} THEN {<<>>}
    ELSE LET m == CHOOSE x \in M : TRUE
         IN  {(MetricKey[m] :> v) @@ f : v \in MetricValues(m), f \in RecordsOver(M \ {m})}
DrawMultiMetric == \E M \in MetricSets : \E f \in RecordsOver(M) : results = JObj(f)

\* One direct metric over a grid of numbers: -1, -0.9, ..., GridMax in tenths,
\* and the integers GridMax .. 10 * GridMax.
GridNumbers ==
    {JRat(i, 10) : i \in -10..(10 * GridMax)} \cup {JInt(i) : i \in GridMax..(10 * GridMax)}
DrawDirectGrid == \E m \in DirectMetrics, v \in GridNumbers : results = JObj(m :> v)

\* wordsPerMinute over 150 - PaceSpan .. 150 + PaceSpan in quarters.
PaceGrid == (4 * (150 - PaceSpan))..(4 * (150 + PaceSpan))
DrawPaceGrid == \E q \in PaceGrid : results = JObj("wordsPerMinute" :> JRat(q, 4))

\* Three direct metrics with the same value i + 0.5, which is its own sub-score.
DrawEqualScores ==
    \E M \in {X \in SUBSET DirectMetrics : Cardinality(X) = 3}, i \in 10..EqualMax :
        results = JObj([m \in M |-> JRat(2 * i + 1, 2)])

\* The worked examples.
Examples2Excellent ==
    JObj(("clarity" :> JStr(s_excellent)) @@ ("confidence" :> JStr(s_excellent)))
ExamplesAllIdeal ==
    JObj(("wordsPerMinute" :> JInt(150)) @@ ("pausesPerMinute" :> JInt(6))
         @@ ("fillerWordRate" :> JInt(0)))
Examples ==
    {Examples2Excellent, ExamplesAllIdeal,
     JObj(("pronunciation" :> JStr(s_neutral)) @@ ("coherence" :> JInt(30))),
     JObj(("wordCount" :> JInt(300)) @@ ("duration" :> JInt(120))),
     JObj(("fillerWordCount" :> JInt(3)) @@ ("words" :> JInt(150))),
     JObj(("pace" :> JInt(150)) @@ ("clarity" :> JStr(s_excellent))),
     JObj("speed" :> JStr(s_high))}

\* Bounds of the grids below.
FillerSpan == 80    \* filler rate grid: -0.02 .. FillerSpan / 1000 in thousandths
PauseSpan == 8      \* pauses grid: 6 - PauseSpan .. 6 + PauseSpan in quarters

\* Inputs of the derived and the coerced metrics:
\*  - records with any of the values the derivations of lines 82-93 read, each
\*    absent (undefined here) or one of a few values;
\*  - the filler rate and the pauses per minute over a grid, under each alias;
\*  - the volume as a number, as a word of the vocabulary and as values only
\*    Number(...) reads;
\*  - the sentiment as a number of -1.5 .. 1.5 in tenths.
DrawDerivedMetrics ==
    \/ \E c \in [wordsPerMinute : {Undefined, JInt(0), JInt(100), JStr(s_banana), JStr(sInfinity)},
                 wordCount : {Undefined, JInt(0), JInt(300)},
                 duration : {Undefined, JInt(0), JInt(120), JInt(-5)},
                 fillerWordRate : {Undefined, JRat(2, 100), JStr(s_banana)},
                 fillerWordCount : {Undefined, JInt(0), JInt(3)}] :
          results = JObj([k \in {x \in DOMAIN c : c[x].t # "undefined"} |-> c[k]])
    \/ \E k \in {"fillerWordRate", "fillerRate"}, i \in -20..FillerSpan :
          results = JObj(k :> JRat(i, 1000))
    \/ \E k \in {"pausesPerMinute", "pauseRate", "pauses_pm"},
          q \in (4 * (6 - PauseSpan))..(4 * (6 + PauseSpan)) :
          results = JObj(k :> JRat(q, 4))
    \/ \E k \in {"volume", "loudness", "rms"},
          v \in {JInt(60), JInt(35), JRat(1, 2), JStr(s_high), JStr(<<"6", "0">>),
                 JStr(<<"5", "5">>), JStr(<<"7", "2", ".", "5">>), JStr(<<"3", "5">>),
                 JStr(s_banana), JBool(TRUE)} :
          results = JObj(k :> v)
    \/ \E k \in {"sentiment", "polarity"}, i \in -15..15 : results = JObj(k :> JRat(i, 10))

\* Lines 20-23 of page.tsx: useState(null), useState(false), useState(null).
\* and lines 108-112 of the recorder.
PageIdle ==
    /\ file = Null /\ isAnalyzing = FALSE /\ error = Null /\ request = "none"
    /\ recorder = [isRecording |-> FALSE, isAnalyzing |-> FALSE, hasPermission |-> Null,
                   stopEvents |-> 0, requests |-> 0]

Init ==
    /\ \/ results \in NonRecords
       \/ DrawPadOnly
       \/ DrawSingleKey
       \/ DrawNested
       \/ DrawMultiMetric
       \/ DrawDirectGrid
       \/ DrawPaceGrid
       \/ DrawEqualScores
       \/ DrawDerivedMetrics
       \/ results \in Examples
    /\ pc = "render"
    /\ ext = <<>>
    /\ num = <<>>
    /\ sub = <<>>
    /\ acc = acc0
    /\ overallScore = Undefined
    /\ history = <<>>
    /\ PageIdle

Spec == Init /\ [][Next]_vars

(***************************************************************************)
(* The component rendered again and again: React calls the component       *)
(* function anew for each render, with the `results` prop of that render,  *)
(* and line 184 evaluates calculateOverallScore(results) each time.        *)
(* history records, for the inputs of the renders that are over, the score *)
(* each returned; the memory of the locals of the last evaluation is left  *)
(* as it was until the next evaluation binds them again.                   *)
(***************************************************************************)
RenderInputs ==
    {Null, JObj(<<>>), JObj(Padded(<<>>, 2)), JObj("clarity" :> JRat(8, 10)),
     Examples2Excellent, ExamplesAllIdeal,
     JObj(("sentiment" :> JStr(<<"G", "O", "O", "D">>))
          @@ ("metrics" :> JObj(("wordsPerMinute" :> JInt(130)) @@ ("rms" :> JInt(50)))))}

Rerender ==
    /\ pc = "done"
    /\ history' = (results :> overallScore) @@ history
    /\ results' \in RenderInputs
    /\ pc' = "render"
    /\ UNCHANGED <<ext, num, sub, acc, overallScore, page>>

InitRender ==
    /\ results \in RenderInputs
    /\ pc = "render"
    /\ ext = <<>>
    /\ num = <<>>
    /\ sub = <<>>
    /\ acc = acc0
    /\ overallScore = Undefined
    /\ history = <<>>
    /\ PageIdle

NextRender == ReturnDefault \/ ReturnKeyCount \/ ReturnMixed \/ Rerender

SpecRender == InitRender /\ [][NextRender]_vars

(***************************************************************************)
(* The presentation of the score (lines 200-223 and 385-391): both are     *)
(* functions of overallScore, evaluated in the render that computed it.    *)
(***************************************************************************)
\* The message with > in place of >=.
scoreMessageExclusive(score) ==
    IF NumGt(score.v, Int2Num(80)) THEN "Excellent work!"
    ELSE IF NumGt(score.v, Int2Num(60)) THEN "Good progress!"
    ELSE "Keep practicing!"
\* overallScore >= 80 ? "Excellent work! ..." : overallScore >= 60 ? "Good
\* progress! ..." : "Keep practicing! ..."
scoreMessage(score) ==
    IF NumGe(score.v, Int2Num(80)) THEN "Excellent work!"
    ELSE IF NumGe(score.v, Int2Num(60)) THEN "Good progress!"
    ELSE "Keep practicing!"
\* The title of the first suggestion generateSuggestions pushes.
firstSuggestion(score) ==
    IF NumLt(score.v, Int2Num(60)) THEN "Focus on Fundamentals"
    ELSE IF NumLt(score.v, Int2Num(80)) THEN "Vocal Clarity"
    ELSE "Advanced Techniques"

\* Lines 199-266 without the slice: the titles pushed, in order.
pushed(analysisData, score) ==
    <<firstSuggestion(score), "Vocal Clarity", "Confidence Building", "Engagement">>
    \o (IF isJsonResponse(analysisData) /\ Truthy(analysisData)
           /\ (Truthy(Get(analysisData, "pace")) \/ Truthy(Get(analysisData, "speed")))
        THEN <<"Speaking Pace">> ELSE <<>>)
    \o (IF isJsonResponse(analysisData) /\ Truthy(analysisData)
           /\ (Truthy(Get(analysisData, "confidence")) \/ Truthy(Get(analysisData, "clarity")))
        THEN <<"Voice Projection">> ELSE <<>>)
\* suggestions.slice(0, n)
slice(suggestions, n) ==
    SubSeq(suggestions, 1, IF Len(suggestions) < n THEN Len(suggestions) ELSE n)
\* generateSuggestions limited to 5 suggestions.
generateSuggestionsFive(analysisData, score) == slice(pushed(analysisData, score), 5)
\* Lines 199-269: the titles of the suggestions returned, overallScore being
\* the score of the render.
generateSuggestions(analysisData, score) == slice(pushed(analysisData, score), 4)

\* Inputs that together score every integer of 0..100: three direct metrics
\* with the same sub-score s (the value s for s > 10, s / 100 below), and the
\* two inputs without data.
EveryScore(s) ==
    JObj([m \in {"clarity", "confidence", "fluency"} |->
             IF s > 10 THEN JInt(s) ELSE JRat(s, 100)])
InitBands ==
    /\ results \in {Null, JObj(<<>>)} \cup {EveryScore(s) : s \in 0..100}
    /\ pc = "render"
    /\ ext = <<>>
    /\ num = <<>>
    /\ sub = <<>>
    /\ acc = acc0
    /\ overallScore = Undefined
    /\ history = <<>>
    /\ PageIdle
SpecBands == InitBands /\ [][Next]_vars

(***************************************************************************)
(* The AudioAnalyzer page (src/app/page.tsx).  Each handler runs to its    *)
(* end, or to its await, before anything else runs, and React applies the  *)
(* state updates of one such run together.  handleAnalyze is reached only  *)
(* through the Analyze button, which is rendered while `file` is set and   *)
(* disabled while isAnalyzing (lines 144-157); handleReset through the     *)
(* Remove button (line 154) or the results panel (line 188).  The two live *)
(* handlers are the onAnalysisResult and onError of the LiveAudioRecorder  *)
(* (src/components/analysis-results.tsx), which calls them when the        *)
(* microphone is refused (line 139), the recording does not start (line    *)
(* 196) and when its own request ends (lines 245 and 248), whatever the    *)
(* page is doing then: that request is never cancelled.  In SpecPage the   *)
(* recorder is the environment and calls them at any time; in SpecApp it   *)
(* is the component modelled below.                                        *)
(***************************************************************************)
\* Selected files, response bodies, live results and error messages.
Files == {JObj("name" :> JStr(<<c>>)) : c \in {"a", "b", "c"}}
s_failedPrefix ==
    <<"F", "a", "i", "l", "e", "d", " ", "t", "o", " ", "a", "n", "a", "l", "y", "z",
      "e", " ", "a", "u", "d", "i", "o", ":", " ">>
s_httpError ==
    <<"H", "T", "T", "P", " ", "e", "r", "r", "o", "r", "!", " ", "s", "t", "a", "t",
      "u", "s", ":", " ", "5", "0", "0">>
s_failedToFetch ==
    <<"F", "a", "i", "l", "e", "d", " ", "t", "o", " ", "f", "e", "t", "c", "h">>
\* data of line 56 (response.json()) or of line 58 (response.text())
Responses == {Examples2Excellent, JObj(<<>>), JStr(<<"O", "K">>), JStr(<<>>)}
\* err.message of line 63: the Error of line 49 or the rejection of fetch
FetchErrors == {s_httpError, s_failedToFetch}
\* The arguments of onAnalysisResult and of onError.
LiveResults == {ExamplesAllIdeal, JObj("clarity" :> JRat(8, 10))}
s_failedToStart ==
    <<"F", "a", "i", "l", "e", "d", " ", "t", "o", " ", "s", "t", "a", "r", "t", " ",
      "r", "e", "c", "o", "r", "d", "i", "n", "g", ".", " ", "P", "l", "e", "a", "s",
      "e", " ", "t", "r", "y", " ", "a", "g", "a", "i", "n", ".">>
s_failedRecording ==
    <<"F", "a", "i", "l", "e", "d", " ", "t", "o", " ", "a", "n", "a", "l", "y", "z",
      "e", " ", "r", "e", "c", "o", "r", "d", "i", "n", "g", ":", " ">>
LiveErrors == {JStr(s_failedToStart), JStr(s_failedRecording \o s_httpError)}

\* Lines 26-30
handleFileSelect ==
    /\ \E selectedFile \in Files : file' = selectedFile
    /\ results' = Null
    /\ error' = Null
    /\ UNCHANGED <<isAnalyzing, request, recorder, pc, ext, num, sub, acc, overallScore, history>>

\* Lines 32-46: handleAnalyze up to the await of fetch.
handleAnalyze ==
    /\ ~isAnalyzing
    /\ IF ~Truthy(file) THEN UNCHANGED <<isAnalyzing, error, results, request>>
       ELSE /\ isAnalyzing' = TRUE
            /\ error' = Null
            /\ results' = Null
            /\ request' = "pending"
    /\ UNCHANGED <<file, recorder, pc, ext, num, sub, acc, overallScore, history>>

\* Lines 48-61 and 65-67: the response arrived and was read.
handleAnalyzeResolved ==
    /\ request = "pending"
    /\ \E data \in Responses : results' = data
    /\ isAnalyzing' = FALSE
    /\ request' = "none"
    /\ UNCHANGED <<file, error, recorder, pc, ext, num, sub, acc, overallScore, history>>

\* handleAnalyzeRejected without the finally clause.
handleAnalyzeRejectedNoFinally ==
    /\ request = "pending"
    /\ \E errorMessage \in FetchErrors : error' = JStr(s_failedPrefix \o errorMessage)
    /\ request' = "none"
    /\ UNCHANGED <<file, isAnalyzing, results, recorder, pc, ext, num, sub, acc, overallScore,
                   history>>
\* Lines 62-67: fetch rejected, the status was not ok or the body unreadable.
handleAnalyzeRejected ==
    /\ request = "pending"
    /\ \E errorMessage \in FetchErrors : error' = JStr(s_failedPrefix \o errorMessage)
    /\ isAnalyzing' = FALSE
    /\ request' = "none"
    /\ UNCHANGED <<file, results, recorder, pc, ext, num, sub, acc, overallScore, history>>

\* Lines 70-73
handleLiveAnalysisResult(result) ==
    /\ results' = result
    /\ error' = Null
    /\ UNCHANGED <<file, isAnalyzing, request, pc, ext, num, sub, acc, overallScore, history>>

\* Lines 75-78
handleLiveAnalysisError(errorMessage) ==
    /\ error' = errorMessage
    /\ results' = Null
    /\ UNCHANGED <<file, isAnalyzing, request, pc, ext, num, sub, acc, overallScore, history>>

\* Lines 80-84
handleReset ==
    /\ Truthy(file) \/ Truthy(results)
    /\ file' = Null
    /\ results' = Null
    /\ error' = Null
    /\ UNCHANGED <<isAnalyzing, request, recorder, pc, ext, num, sub, acc, overallScore, history>>

InitPage ==
    /\ results = Null
    /\ PageIdle
    /\ pc = "render"
    /\ ext = <<>>
    /\ num = <<>>
    /\ sub = <<>>
    /\ acc = acc0
    /\ overallScore = Undefined
    /\ history = <<>>

NextPage ==
    \/ handleFileSelect
    \/ handleAnalyze
    \/ handleAnalyzeResolved
    \/ handleAnalyzeRejected
    \/ \E result \in LiveResults : handleLiveAnalysisResult(result) /\ UNCHANGED recorder
    \/ \E errorMessage \in LiveErrors :
          handleLiveAnalysisError(errorMessage) /\ UNCHANGED recorder
    \/ handleReset

SpecPage == InitPage /\ [][NextPage]_vars

(***************************************************************************)
(* The LiveAudioRecorder (src/components/analysis-results.tsx, lines       *)
(* 107-383).  startRecording and stopRecording are reached through the     *)
(* one button of lines 333-348, which is Start while isRecording is false  *)
(* (disabled while isAnalyzing or before permission is given) and Stop     *)
(* while it is true (disabled while isAnalyzing).  With permission given   *)
(* streamRef holds the stream, so startRecording runs to its end without   *)
(* an await.  MediaRecorder.stop() returns at once and the `stop` event,   *)
(* whose handler calls analyzeAudio, is delivered by a later task.         *)
(***************************************************************************)
\* Stop events and requests of the recorder that may be outstanding together.
MaxInFlight == 2

s_micDenied ==
    <<"M", "i", "c", "r", "o", "p", "h", "o", "n", "e", " ", "a", "c", "c", "e", "s",
      "s", " ", "d", "e", "n", "i", "e", "d", ".", " ", "P", "l", "e", "a", "s", "e",
      " ", "a", "l", "l", "o", "w", " ", "m", "i", "c", "r", "o", "p", "h", "o", "n",
      "e", " ", "a", "c", "c", "e", "s", "s", " ", "t", "o", " ", "u", "s", "e", " ",
      "l", "i", "v", "e", " ", "r", "e", "c", "o", "r", "d", "i", "n", "g", ".">>

\* Lines 122-136: getUserMedia resolved.
requestPermissionGranted ==
    /\ recorder.hasPermission # JBool(TRUE)
    /\ recorder' = [recorder EXCEPT !.hasPermission = JBool(TRUE)]
    /\ UNCHANGED <<results, file, isAnalyzing, error, request, pc, ext, num, sub, acc,
                   overallScore, history>>

\* Lines 122-124 and 137-141: getUserMedia rejected.
requestPermissionDenied ==
    /\ recorder.hasPermission # JBool(TRUE)
    /\ recorder' = [recorder EXCEPT !.hasPermission = JBool(FALSE)]
    /\ handleLiveAnalysisError(JStr(s_micDenied))

\* Lines 158-194
startRecording ==
    /\ ~recorder.isRecording /\ ~recorder.isAnalyzing /\ recorder.hasPermission = JBool(TRUE)
    /\ recorder' = [recorder EXCEPT !.isRecording = TRUE]
    /\ UNCHANGED <<results, file, isAnalyzing, error, request, pc, ext, num, sub, acc,
                   overallScore, history>>

\* Lines 158-168 and 195-197: new MediaRecorder(...) or start() threw.
startRecordingFailed ==
    /\ ~recorder.isRecording /\ ~recorder.isAnalyzing /\ recorder.hasPermission = JBool(TRUE)
    /\ handleLiveAnalysisError(JStr(s_failedToStart))
    /\ UNCHANGED recorder

\* Lines 201-216
stopRecording ==
    /\ recorder.isRecording /\ ~recorder.isAnalyzing
    /\ recorder.stopEvents < MaxInFlight
    /\ recorder' = [recorder EXCEPT !.isRecording = FALSE, !.stopEvents = @ + 1]
    /\ UNCHANGED <<results, file, isAnalyzing, error, request, pc, ext, num, sub, acc,
                   overallScore, history>>

\* Lines 178-181 and 219-230: the `stop` event is delivered and analyzeAudio
\* runs up to the await of fetch.
onstop ==
    /\ recorder.stopEvents > 0
    /\ recorder.requests < MaxInFlight
    /\ recorder' = [recorder EXCEPT !.stopEvents = @ - 1, !.isAnalyzing = TRUE,
                                    !.requests = @ + 1]
    /\ UNCHANGED <<results, file, isAnalyzing, error, request, pc, ext, num, sub, acc,
                   overallScore, history>>

\* Lines 232-245 and 249-251: the response arrived and was read.
analyzeAudioResolved ==
    /\ recorder.requests > 0
    /\ \E data \in LiveResults : handleLiveAnalysisResult(data)
    /\ recorder' = [recorder EXCEPT !.requests = @ - 1, !.isAnalyzing = FALSE]

\* Lines 246-251: fetch rejected, the status was not ok or the body unreadable.
analyzeAudioRejected ==
    /\ recorder.requests > 0
    /\ \E errorMessage \in FetchErrors :
          handleLiveAnalysisError(JStr(s_failedRecording \o errorMessage))
    /\ recorder' = [recorder EXCEPT !.requests = @ - 1, !.isAnalyzing = FALSE]

NextApp ==
    \/ handleFileSelect
    \/ handleAnalyze
    \/ handleAnalyzeResolved
    \/ handleAnalyzeRejected
    \/ handleReset
    \/ requestPermissionGranted
    \/ requestPermissionDenied
    \/ startRecording
    \/ startRecordingFailed
    \/ stopRecording
    \/ onstop
    \/ analyzeAudioResolved
    \/ analyzeAudioRejected

SpecApp == InitPage /\ [][NextApp]_vars

\* Every request is answered or fails in the end.
SpecAppFair ==
    /\ SpecApp
    /\ WF_vars(handleAnalyzeResolved \/ handleAnalyzeRejected)
    /\ WF_vars(analyzeAudioResolved \/ analyzeAudioRejected)

(***************************************************************************)
(* Properties                                                              *)
(***************************************************************************)
\* The integers 0..100 as scores.
ScoreRange == {JInt(i) : i \in 0..100}
Done == pc = "done"
\* The prop is a keyed record (no array, no primitive).
IsRecord == results.t = "object"
\* The number of top-level keys of the record.
KeyCount == Cardinality(DOMAIN results.v)

C2_NonRecordsScore50 == Done /\ ~IsRecord => overallScore = JInt(50)

\* C3: when no metric contributes (the accumulated weight is zero), the score
\* of a record is decided by the number k of its top-level keys alone: 70 for
\* k > 3, 60 for k = 2 or 3, 50 for k = 0 or 1; {} gives 50, {a:1, b:2} gives
\* 60 and {a:1, b:2, c:3, d:4} gives 70.
C3_KeyCountFallback ==
    /\ Done /\ IsRecord /\ acc.w = Int2Num(0) =>
          overallScore = JInt(IF KeyCount > 3 THEN 70 ELSE IF KeyCount \in {2, 3} THEN 60 ELSE 50)
    /\ Done /\ results = JObj(<<>>) => overallScore = JInt(50)
    /\ Done /\ results = JObj(Padded(<<>>, 2)) => overallScore = JInt(60)
    /\ Done /\ results = JObj(Padded(<<>>, 4)) => overallScore = JInt(70)
\* A record of more than three keys, one of them a recognized key whose value
\* yields no sub-score, has taken the fallback.
C3_Witness ==
    /\ Done /\ IsRecord /\ acc.w = Int2Num(0) /\ KeyCount > 3
    /\ \E g \in DOMAIN Aliases : ext[g] # Undefined
    /\ overallScore = JInt(70)

\* C4: with n the number of contributing metrics and weighted = sum / w, the
\* score is clamp(weighted * (1 - b) + 60 * b, 0, 100) rounded to the nearest
\* integer, a half going up, where b is 0.6 for n = 1, 0.3 for n = 2 and 0 for
\* n >= 3; {clarity: "excellent", confidence: "excellent"} has n = 2,
\* weighted = 95, the blended value 84.5 and the score 85.
C4_b == IF acc.n = 1 THEN Rat(6, 10) ELSE IF acc.n = 2 THEN Rat(3, 10) ELSE Int2Num(0)
C4_weighted == NumDiv(acc.sum, acc.w)
C4_blended ==
    clip(NumAdd(NumMul(C4_weighted, NumSub(Int2Num(1), C4_b)), NumMul(Int2Num(60), C4_b)),
         Int2Num(0), Int2Num(100))
\* r is x rounded to the nearest integer, a half going up: r - 1/2 <= x < r + 1/2
C4_RoundsTo(x, r) ==
    /\ NumLe(NumSub(r, Rat(1, 2)), x)
    /\ NumLt(x, NumAdd(r, Rat(1, 2)))
C4_Blend ==
    /\ Done /\ IsRecord /\ acc.n >= 1 =>
          /\ overallScore \in ScoreRange
          /\ C4_RoundsTo(C4_blended, overallScore.v)
    /\ Done /\ results = Examples2Excellent =>
          /\ acc.n = 2
          /\ C4_weighted = Int2Num(95)
          /\ C4_blended = Rat(169, 2)
          /\ overallScore = JInt(85)
\* The example has been scored, its blended value a half.
C4_Witness ==
    Done /\ results = Examples2Excellent /\ C4_blended = Rat(169, 2) /\ overallScore = JInt(85)

\* C5: the weighted mean is the sum of score * weight over exactly the metrics
\* that produced a sub-score, divided by the sum of the weights of the same
\* metrics, with the fixed weights; a metric without a sub-score adds nothing
\* to the sum, the weight total or n; so when three or more metrics
\* contribute and all their sub-scores equal s, the score is s rounded, a half
\* going up; {wordsPerMinute: 150, pausesPerMinute: 6, fillerWordRate: 0}
\* scores 100.
C5_Weight ==
    [clarity |-> Rat(12, 100), confidence |-> Rat(12, 100), fluency |-> Rat(10, 100),
     articulation |-> Rat(8, 100), coherence |-> Rat(8, 100), engagement |-> Rat(6, 100),
     pronunciation |-> Rat(8, 100), intonation |-> Rat(6, 100), pace |-> Rat(12, 100),
     volume |-> Rat(6, 100), filler |-> Rat(6, 100), pauses |-> Rat(6, 100),
     sentiment |-> Rat(10, 100)]
\* The metrics that produced a sub-score.
C5_Contributing == {key \in Metrics : sub[key].t = "number" /\ ~IsNaNNum(sub[key].v)}
\* The sum of score * weight, the sum of the weights and the count over the
\* contributing metrics among the first i.
RECURSIVE C5_Sum(_)
C5_Sum(i) ==
    IF i = 0 THEN [sum |-> Int2Num(0), w |-> Int2Num(0), n |-> 0]
    ELSE LET before == C5_Sum(i - 1)
             key == AddOrder[i]
         IN  IF key \notin C5_Contributing THEN before
             ELSE [sum |-> NumAdd(before.sum, NumMul(sub[key].v, C5_Weight[key])),
                   w |-> NumAdd(before.w, C5_Weight[key]),
                   n |-> before.n + 1]
C5_WeightedMean ==
    /\ Done /\ IsRecord => acc = C5_Sum(Len(AddOrder))
    /\ Done /\ IsRecord /\ acc.n >= 3 =>
          \A key \in C5_Contributing :
              (\A other \in C5_Contributing : sub[other] = sub[key])
                  => /\ overallScore \in ScoreRange
                     /\ C4_RoundsTo(sub[key].v, overallScore.v)
    /\ Done /\ results = ExamplesAllIdeal =>
          /\ C5_Contributing = {"pace", "pauses", "filler"}
          /\ overallScore = JInt(100)

C7_MetricOf ==
    [wpm |-> "pace", fillerRate |-> "filler", pausesPerMinute |-> "pauses",
     volume |-> "volume", sentiment |-> "sentiment", clarity |-> "clarity",
     confidence |-> "confidence", articulation |-> "articulation", fluency |-> "fluency",
     coherence |-> "coherence", engagement |-> "engagement",
     pronunciation |-> "pronunciation", intonation |-> "intonation"]
C7_Numeric == {"wpm", "fillerRate", "pausesPerMinute"}
C7_Malformed(g) ==
    \/ ext[g].t \in {"boolean", "array", "object"}
    \/ g \in C7_Numeric /\ ext[g] \in {JStr(s_empty), JStr(s_banana)}
\* Nothing is present from which the metric could be derived instead.
C7_NothingDerived ==
    ext.wordCount = Undefined /\ ext.durationSec = Undefined /\ ext.fillerCount = Undefined
C7_MalformedSkipped ==
    Done /\ IsRecord /\ C7_NothingDerived =>
        /\ \A g \in DOMAIN C7_MetricOf :
               C7_Malformed(g) => C7_MetricOf[g] \notin C5_Contributing
        /\ (\A g \in DOMAIN C7_MetricOf : ext[g] = Undefined \/ C7_Malformed(g)) =>
               /\ acc.n = 0
               /\ overallScore =
                      JInt(IF KeyCount > 3 THEN 70 ELSE IF KeyCount \in {2, 3} THEN 60 ELSE 50)

\* C8: when one recognized key k is present (no other key of the same
\* looked-up value is), the value extracted is the top-level value under k if
\* that is not null, and the value under k in `metrics` only when k is missing
\* or null at the top level; the lookup is a function of the record, the same
\* on every evaluation.
C8_Top(k) == IF k \in DOMAIN results.v THEN results.v[k] ELSE Undefined
C8_Metrics == C8_Top("metrics")
C8_Nested(k) ==
    IF C8_Metrics.t = "object" /\ k \in DOMAIN C8_Metrics.v THEN C8_Metrics.v[k] ELSE Undefined
C8_Present(k) == ~IsNullish(C8_Top(k)) \/ ~IsNullish(C8_Nested(k))
C8_TopLevelFirst ==
    Done /\ IsRecord =>
        \A g \in DOMAIN Aliases : \A i \in 1..Len(Aliases[g]) :
            (\A j \in 1..Len(Aliases[g]) : j # i => ~C8_Present(Aliases[g][j]))
                => ext[g] = IF ~IsNullish(C8_Top(Aliases[g][i])) THEN C8_Top(Aliases[g][i])
                            ELSE IF ~IsNullish(C8_Nested(Aliases[g][i]))
                                 THEN C8_Nested(Aliases[g][i])
                            ELSE Undefined
\* A key holds different values at the top level and in `metrics`, and the
\* top-level one has been extracted.
C8_Witness ==
    /\ Done /\ IsRecord
    /\ \E g \in DOMAIN Aliases : \E i \in 1..Len(Aliases[g]) :
           /\ ~IsNullish(C8_Top(Aliases[g][i]))
           /\ ~IsNullish(C8_Nested(Aliases[g][i]))
           /\ C8_Top(Aliases[g][i]) # C8_Nested(Aliases[g][i])
           /\ ext[g] = C8_Top(Aliases[g][i])

\* C9: a numeric direct metric v is normalized by its magnitude: v * 100 for
\* v in [0, 1], (v / 5) * 100 for v in (1, 5], (v / 10) * 100 for v in (5, 10]
\* and clamp(v, 0, 100) for v > 10; clarity 0.8, clarity 4 and clarity 8 all
\* have the sub-score 80 and therefore the same score.
C9_Normalized(v) ==
    IF NumLe(v, Int2Num(1)) THEN NumMul(v, Int2Num(100))
    ELSE IF NumLe(v, Int2Num(5)) THEN NumMul(NumDiv(v, Int2Num(5)), Int2Num(100))
    ELSE IF NumLe(v, Int2Num(10)) THEN NumMul(NumDiv(v, Int2Num(10)), Int2Num(100))
    ELSE MathMax(Int2Num(0), MathMin(Int2Num(100), v))
C9_Clarity(v) == JObj("clarity" :> v)
C9_ScaleNormalization ==
    /\ Done /\ IsRecord =>
          \A m \in DirectMetrics :
              ext[m].t = "number" /\ NumGe(ext[m].v, Int2Num(0))
                  => sub[m] = JNum(C9_Normalized(ext[m].v))
    /\ Done /\ results \in {C9_Clarity(JRat(8, 10)), C9_Clarity(JInt(4)), C9_Clarity(JInt(8))} =>
          /\ sub.clarity = JInt(80)
          /\ overallScore = JInt(68)
\* clarity 4 has been scored on the 1-5 scale.
C9_Witness ==
    Done /\ results = C9_Clarity(JInt(4)) /\ sub.clarity = JInt(80) /\ overallScore = JInt(68)

\* The pace sub-score of a rate of x words per minute.
C10_PaceAt(x) == paceScore([wpm |-> x])
C10_Formula(w) ==
    MathRound(NumMul(clip(NumSub(Int2Num(1),
                                 NumDiv(MathAbs(NumSub(w, Int2Num(150))), Int2Num(50))),
                          Int2Num(0), Int2Num(1)),
                     Int2Num(100)))
\* What the sub-score of the rate w is claimed to be: the formula, 100 at 150,
\* 0 at and beyond 100 and 200, never negative, the same at 300 - w.
C10_Shape(w) ==
    /\ sub.pace = JNum(C10_Formula(w))
    /\ sub.pace \in ScoreRange
    /\ w = Int2Num(150) => sub.pace = JInt(100)
    /\ NumLe(w, Int2Num(100)) \/ NumGe(w, IntToNum(200)) => sub.pace = JInt(0)
    /\ C10_PaceAt(NumSub(IntToNum(300), w)) = sub.pace
\* The sub-score at distance |w - 150| + step from 150, on the side of w.
C10_Farther(w, step) ==
    IF NumGe(w, Int2Num(150)) THEN C10_PaceAt(NumAdd(w, step)).v
    ELSE C10_PaceAt(NumSub(w, step)).v
\* |w - 150| + step <= 50
C10_Within(w, step) ==
    NumLe(NumAdd(MathAbs(NumSub(w, Int2Num(150))), step), Int2Num(50))

\* C10 as claimed: the pace sub-score is round(clamp(1 - |wpm - 150| / 50, 0,
\* 1) * 100), 100 at 150, 0 at 100 and 200 and outside [100, 200], never
\* negative, symmetric around 150, and strictly smaller whenever |wpm - 150|
\* is larger within 0..50 (here: larger by a quarter).
C10_StrictlyDecreasing ==
    Done /\ IsRecord /\ IsFin(num.wpm) =>
        /\ C10_Shape(num.wpm)
        /\ C10_Within(num.wpm, Rat(1, 4)) =>
               NumLt(C10_Farther(num.wpm, Rat(1, 4)), sub.pace.v)

\* C10 amended: the pace sub-score is round(clamp(1 - |wpm - 150| / 50, 0, 1)
\* * 100), 100 at 150, 0 at 100 and 200 and outside [100, 200], never
\* negative, symmetric around 150; as |wpm - 150| grows from 0 to 50 it never
\* increases, and it strictly decreases whenever |wpm - 150| grows by 1 or
\* more.
C10_PaceTriangle ==
    Done /\ IsRecord /\ IsFin(num.wpm) =>
        /\ C10_Shape(num.wpm)
        /\ NumLe(C10_Farther(num.wpm, Rat(1, 4)), sub.pace.v)
        /\ C10_Within(num.wpm, Int2Num(1)) =>
               NumLt(C10_Farther(num.wpm, Int2Num(1)), sub.pace.v)
\* 150.25 words per minute score 100, as 150 do.
C10_Witness ==
    /\ Done /\ IsRecord
    /\ num.wpm = Rat(601, 4)
    /\ sub.pace = JInt(100)
    /\ C10_PaceAt(Int2Num(150)) = JInt(100)

\* C11: for every score s of 0..100 exactly one message is shown: the
\* "excellent" one iff s >= 80, the "good progress" one iff 60 <= s < 80 and
\* the "keep practicing" one iff s < 60; the first suggestion is chosen with
\* the same cut points 60 and 80.
C11_Score == CHOOSE s \in 0..100 : overallScore = JInt(s)
\* Every score of 0..100 is the score of some of the inputs.
C11_AllScores ==
    Done /\ results.t = "object" /\ results.v # <<>> =>
        \E s \in 0..100 : results = EveryScore(s) /\ overallScore = JInt(s)
C11_MessageBands ==
    /\ C11_AllScores
    /\ Done =>
        /\ overallScore \in ScoreRange
        /\ scoreMessage(overallScore) = "Excellent work!" <=> C11_Score >= 80
        /\ scoreMessage(overallScore) = "Good progress!" <=> C11_Score >= 60 /\ C11_Score < 80
        /\ scoreMessage(overallScore) = "Keep practicing!" <=> C11_Score < 60
        /\ firstSuggestion(overallScore) = "Advanced Techniques" <=> C11_Score >= 80
        /\ firstSuggestion(overallScore) = "Vocal Clarity" <=> C11_Score >= 60 /\ C11_Score < 80
        /\ firstSuggestion(overallScore) = "Focus on Fundamentals" <=> C11_Score < 60
\* The score at the upper cut point, computed from three metrics.
C11_Witness ==
    /\ Done /\ results = EveryScore(80) /\ overallScore = JInt(80)
    /\ scoreMessage(overallScore) = "Excellent work!"
    /\ firstSuggestion(overallScore) = "Advanced Techniques"


\* C12: when some key of a looked-up value has a non-null value at the top
\* level, the value extracted is the top-level value under the first such key
\* of the key list, whatever `metrics` holds.
C12_FirstAtTop(g) ==
    CHOOSE i \in 1..Len(Aliases[g]) :
        /\ ~IsNullish(C8_Top(Aliases[g][i]))
        /\ \A j \in 1..(i - 1) : IsNullish(C8_Top(Aliases[g][j]))
C12_TopLevelBeforeMetrics ==
    Done /\ IsRecord =>
        \A g \in DOMAIN Aliases :
            (\E i \in 1..Len(Aliases[g]) : ~IsNullish(C8_Top(Aliases[g][i])))
                => ext[g] = C8_Top(Aliases[g][C12_FirstAtTop(g)])


\* C13: wordsPerMinute is replaced by wordCount / duration * 60 only when the
\* looked-up value is absent or not a finite number and both wordCount and
\* duration are numbers greater than 0; every finite looked-up value, 0
\* included, is the rate the pace sub-score is computed from; and with no
\* looked-up value and no derivation possible the pace metric adds nothing.
C13_Found == ToNumber(ext.wpm)
C13_Derivable ==
    /\ IsFin(num.wordCount) /\ NumGt(num.wordCount, Int2Num(0))
    /\ IsFin(num.durationSec) /\ NumGt(num.durationSec, Int2Num(0))
C13_Derived == NumMul(NumDiv(num.wordCount, num.durationSec), Int2Num(60))
C13_FoundUsed ==
    Done /\ IsRecord /\ IsFin(C13_Found) =>
        num.wpm = C13_Found /\ sub.pace = triangularScore(C13_Found, 150, 50)
C13_DerivedUsed ==
    Done /\ IsRecord /\ ~IsFin(C13_Found) /\ C13_Derivable =>
        num.wpm = C13_Derived /\ sub.pace = triangularScore(C13_Derived, 150, 50)
C13_NoPace ==
    Done /\ IsRecord /\ ext.wpm = Undefined
         /\ (IsNaNNum(num.wordCount) \/ IsNaNNum(num.durationSec)
             \/ NumLe(num.durationSec, Int2Num(0))) =>
        "pace" \notin C5_Contributing /\ acc.n = Cardinality(C5_Contributing)
C13_WpmDerivation == C13_FoundUsed /\ C13_DerivedUsed /\ C13_NoPace


\* C14: when no valid filler rate is looked up and both a filler-word count
\* c >= 0 and a wordCount w > 0 are, the filler rate is c / w and the filler
\* metric contributes with the sub-score of that rate; a count of 0 gives the
\* filler sub-score 100, counted in n.
C14_Rate == ToNumber(ext.fillerRate)
C14_Derivable ==
    /\ IsFin(num.fillerCount) /\ NumGe(num.fillerCount, Int2Num(0))
    /\ IsFin(num.wordCount) /\ NumGt(num.wordCount, Int2Num(0))
C14_Derived == NumDiv(num.fillerCount, num.wordCount)
C14_DerivedScore ==
    JNum(clip100(NumSub(Int2Num(100),
        NumMul(NumDiv(clip100(NumMul(C14_Derived, Int2Num(100))), Int2Num(5)), Int2Num(100)))))
C14_RateDerived ==
    Done /\ IsRecord /\ ~IsFin(C14_Rate) /\ C14_Derivable /\ ~IsZero(num.fillerCount) =>
        /\ num.fillerRate = C14_Derived
        /\ sub.filler = C14_DerivedScore
        /\ "filler" \in C5_Contributing /\ acc.n = Cardinality(C5_Contributing)
C14_ZeroCount ==
    Done /\ IsRecord /\ ~IsFin(C14_Rate) /\ C14_Derivable /\ IsZero(num.fillerCount) =>
        /\ sub.filler = JInt(100)
        /\ "filler" \in C5_Contributing /\ acc.n = Cardinality(C5_Contributing)
C14_FillerDerivation == C14_RateDerived /\ C14_ZeroCount


\* C15: a string under a direct metric is looked up, in lower case, in the
\* vocabulary excellent 95, very good 88, good 78, fair 65, poor 45, very
\* poor 25, high 85, medium 65, low 45, positive 80, neutral 60, negative 40;
\* a string that is not in it makes the metric absent: no sub-score, no weight
\* and no increase of n.
C15_Vocabulary ==
    (<<"e", "x", "c", "e", "l", "l", "e", "n", "t">> :> 95) @@
    (<<"v", "e", "r", "y", " ", "g", "o", "o", "d">> :> 88) @@
    (<<"g", "o", "o", "d">> :> 78) @@
    (<<"f", "a", "i", "r">> :> 65) @@
    (<<"p", "o", "o", "r">> :> 45) @@
    (<<"v", "e", "r", "y", " ", "p", "o", "o", "r">> :> 25) @@
    (<<"h", "i", "g", "h">> :> 85) @@
    (<<"m", "e", "d", "i", "u", "m">> :> 65) @@
    (<<"l", "o", "w">> :> 45) @@
    (<<"p", "o", "s", "i", "t", "i", "v", "e">> :> 80) @@
    (<<"n", "e", "u", "t", "r", "a", "l">> :> 60) @@
    (<<"n", "e", "g", "a", "t", "i", "v", "e">> :> 40)
\* The direct metric m holds a string whose vocabulary key is key.
C15_Mapped(m, key) ==
    IF key \in DOMAIN C15_Vocabulary
    THEN sub[m] = JInt(C15_Vocabulary[key]) /\ m \in C5_Contributing
    ELSE m \notin C5_Contributing
C15_StringRatings ==
    Done /\ IsRecord =>
        /\ acc.n = Cardinality(C5_Contributing)
        /\ \A m \in DirectMetrics :
               ext[m].t = "string" => C15_Mapped(m, ToLowerCase(ext[m].v))
\* C15 as amended: the string is looked up in lower case and without the white
\* space around it.
C15_TrimmedStringRatings ==
    Done /\ IsRecord =>
        /\ acc.n = Cardinality(C5_Contributing)
        /\ \A m \in DirectMetrics :
               ext[m].t = "string" => C15_Mapped(m, Trim(ToLowerCase(ext[m].v)))
\* " Good " under clarity has the sub-score 78, and "banana" under clarity
\* would have none: here the former.
C15_Witness ==
    /\ Done
    /\ results = JObj("clarity" :> JStr(<<" ", "G", "o", "o", "d", " ">>))
    /\ sub.clarity = JInt(78)
    /\ acc.n = 1


\* C16: the sentiment metric contributes whenever the value found under
\* sentiment or polarity is a string or a number: a string has the sub-score
\* of its vocabulary word, or 60 if it is no word of the vocabulary; a number
\* s has clamp(((s + 1) / 2) * 100, 0, 100), so -1 gives 0, 0 gives 50 and 1
\* gives 100; a value of another type does not contribute.
C16_OfNumber(s) ==
    JNum(clip100(NumMul(NumDiv(NumAdd(s, Int2Num(1)), Int2Num(2)), Int2Num(100))))
C16_OfString(key) ==
    IF key \in DOMAIN C15_Vocabulary THEN JInt(C15_Vocabulary[key]) ELSE JInt(60)
C16_String ==
    Done /\ IsRecord /\ ext.sentiment.t = "string" =>
        sub.sentiment = C16_OfString(ToLowerCase(ext.sentiment.v))
            /\ "sentiment" \in C5_Contributing
C16_Number ==
    Done /\ IsRecord /\ ext.sentiment.t = "number" /\ ~IsNaNNum(ext.sentiment.v) =>
        /\ sub.sentiment = C16_OfNumber(ext.sentiment.v) /\ "sentiment" \in C5_Contributing
        /\ ext.sentiment = JInt(-1) => sub.sentiment = JInt(0)
        /\ ext.sentiment = JInt(0) => sub.sentiment = JInt(50)
        /\ ext.sentiment = JInt(1) => sub.sentiment = JInt(100)
C16_Other ==
    Done /\ IsRecord /\ ext.sentiment.t \notin {"string", "number"} =>
        "sentiment" \notin C5_Contributing
C16_Sentiment ==
    /\ C16_String /\ C16_Number /\ C16_Other
    /\ Done /\ IsRecord => acc.n = Cardinality(C5_Contributing)


\* C17: whenever the filler rate r is a finite number, the filler sub-score is
\* clamp(100 - (p / 5) * 100, 0, 100) with p = clamp(r * 100, 0, 100): it is
\* 100 for r <= 0, 0 for r >= 0.05, and between 0 and 0.05 it falls along the
\* line 100 - 2000 r: it is strictly smaller for a rate larger by a thousandth,
\* and for r = i / 1000 it is 100 - 2 i up to the rounding of the arithmetic.
C17_Formula(r) ==
    clip100(NumSub(Int2Num(100),
                   NumMul(NumDiv(clip100(NumMul(r, Int2Num(100))), Int2Num(5)), Int2Num(100))))
C17_FillerAt(r) == fillerScore([fillerRate |-> r])
\* The rates i / 1000 of the part of the grid where the score falls.
C17_Thousandths == [i \in 0..50 |-> JRat(i, 1000)] @@ <<>>
C17_OnLine ==
    \A i \in 0..50 :
        ext.fillerRate = C17_Thousandths[i] =>
            NumLt(MathAbs(NumSub(sub.filler.v, Int2Num(100 - 2 * i))), Rat(1, 1000000))
C17_FillerLine ==
    Done /\ IsRecord /\ IsFin(num.fillerRate) =>
        /\ sub.filler = JNum(C17_Formula(num.fillerRate))
        /\ "filler" \in C5_Contributing
        /\ NumLe(num.fillerRate, Int2Num(0)) => sub.filler = JInt(100)
        /\ NumGe(num.fillerRate, Rat(5, 100)) => sub.filler = JInt(0)
        /\ NumGe(num.fillerRate, Int2Num(0))
             /\ NumLe(NumAdd(num.fillerRate, Rat(1, 1000)), Rat(5, 100)) =>
               NumLt(C17_FillerAt(NumAdd(num.fillerRate, Rat(1, 1000))).v, sub.filler.v)
        /\ C17_OnLine
\* A rate of 2% has the sub-score 60.
C17_Witness ==
    /\ Done
    /\ results = JObj("fillerRate" :> JRat(20, 1000))
    /\ num.fillerRate = Rat(2, 100)
    /\ sub.filler = JInt(60)


\* C18: the volume sub-score is the direct-metric normalization of the value
\* found under volume, loudness or rms whenever that normalization yields a
\* value (every number, every word of the vocabulary), so the number 60 scores
\* 60; only otherwise it is round(clamp(1 - |x - 60| / 25, 0, 1) * 100) of the
\* numeric coercion x of the value, and if x is no number the volume metric
\* does not contribute.
C18_Triangle(x) ==
    MathRound(NumMul(clip(NumSub(Int2Num(1),
                                 NumDiv(MathAbs(NumSub(x, Int2Num(60))), Int2Num(25))),
                          Int2Num(0), Int2Num(1)),
                     Int2Num(100)))
C18_Normalizable ==
    \/ ext.volume.t = "number" /\ ~IsNaNNum(ext.volume.v)
    \/ ext.volume.t = "string" /\ Trim(ToLowerCase(ext.volume.v)) \in DOMAIN C15_Vocabulary
C18_Fallback ==
    IF IsNaNNum(ToNumber(ext.volume)) THEN "volume" \notin C5_Contributing
    ELSE sub.volume = JNum(C18_Triangle(ToNumber(ext.volume))) /\ "volume" \in C5_Contributing
C19_Triangle(p) ==
    MathRound(NumMul(clip(NumSub(Int2Num(1),
                                 NumDiv(MathAbs(NumSub(p, Int2Num(6))), Int2Num(5))),
                          Int2Num(0), Int2Num(1)),
                     Int2Num(100)))
C19_PausesTriangle ==
    Done /\ IsRecord =>
        /\ acc.n = Cardinality(C5_Contributing)
        /\ IsFin(num.pausesPerMinute) =>
              /\ sub.pauses = JNum(C19_Triangle(num.pausesPerMinute))
              /\ "pauses" \in C5_Contributing
              /\ num.pausesPerMinute = Int2Num(6) => sub.pauses = JInt(100)
              /\ NumLe(num.pausesPerMinute, Int2Num(1)) => sub.pauses = JInt(0)
              /\ NumGe(num.pausesPerMinute, Int2Num(11)) => sub.pauses = JInt(0)
        /\ ext.pausesPerMinute = Undefined => "pauses" \notin C5_Contributing
\* 4.5 pauses per minute under pauseRate have the sub-score 70.
C19_Witness ==
    /\ Done
    /\ results = JObj("pauseRate" :> JRat(18, 4))
    /\ num.pausesPerMinute = Rat(9, 2)
    /\ sub.pauses = JInt(70)
    /\ acc.n = 1


\* C20: whatever the order of handleFileSelect, handleAnalyze (its start, its
\* successful and its failed completion), handleLiveAnalysisResult,
\* handleLiveAnalysisError and handleReset, a live callback arriving while an
\* upload is awaited included, `results` and `error` are never both non-null:
\* the results panel (line 188) and the error alert (line 180) are never
\* rendered together.
C20_ResultsXorError ==
    /\ ~(results # Null /\ error # Null)
    /\ ~(Truthy(results) /\ Truthy(error))


\* C21: the number of contributing metrics bounds the score: with exactly one
\* the score lies in 36..76, with exactly two in 18..88, so a score below 18
\* or above 88 is returned only when three or more metrics contribute.
C21_Between(lo, hi) ==
    /\ overallScore \in ScoreRange
    /\ NumGe(overallScore.v, Int2Num(lo)) /\ NumLe(overallScore.v, Int2Num(hi))
C21_CountBoundsScore ==
    Done =>
        /\ IsRecord /\ acc.n = 1 => C21_Between(36, 76)
        /\ IsRecord /\ acc.n = 2 => C21_Between(18, 88)
        /\ ~C21_Between(18, 88) => IsRecord /\ acc.n >= 3
\* Two metrics with the sub-score 100 each give the score 88.
C21_Witness ==
    /\ Done /\ IsRecord
    /\ acc.n = 2
    /\ \A key \in C5_Contributing : sub[key] = JInt(100)
    /\ overallScore = JInt(88)


\* C22: two records that differ only in top-level keys that are neither a
\* recognized key nor `metrics` get the same score whenever a metric
\* contributes: the accumulated sum, weight and count of a record with a
\* contributing metric are those of the record without its unrecognized keys,
\* and the score is computed from them alone.
C22_Recognized(d) ==
    JObj([k \in DOMAIN d.v \cap (RecognizedKeys \cup {"metrics"}) |-> d.v[k]])
C22_Acc(e) == addAll(acc0, subScores(e, numerics(e)), 1)
C22_ScoreOf(d) == rounded(C22_Acc(extracted(d)))
C22_UnrecognizedKeysIgnored ==
    Done /\ IsRecord /\ acc.n >= 1 =>
        /\ C22_Acc(extracted(C22_Recognized(results))) = acc
        /\ overallScore = JNum(rounded(acc))
\* A record with one contributing metric and four unrecognized keys.
C22_Witness ==
    /\ Done /\ IsRecord
    /\ acc.n = 1
    /\ KeyCount = 5
    /\ Cardinality(DOMAIN C22_Recognized(results).v) = 1
    /\ overallScore = JNum(C22_ScoreOf(C22_Recognized(results)))


\* C23: every number under a direct metric contributes, with a sub-score in
\* [0, 100]: a negative number with 0 and a number above 100 with 100, so the
\* weight and n grow for -5 and for 5500 as for any other number.  (NaN is a
\* number of the model's values that no JSON text denotes; it is left out.)
C23_NumericContributes ==
    Done /\ IsRecord =>
        /\ acc.n = Cardinality(C5_Contributing)
        /\ \A m \in DirectMetrics :
               ext[m].t = "number" /\ ~IsNaNNum(ext[m].v) =>
                   /\ m \in C5_Contributing
                   /\ NumGe(sub[m].v, Int2Num(0)) /\ NumLe(sub[m].v, Int2Num(100))
                   /\ NumLt(ext[m].v, Int2Num(0)) => sub[m] = JInt(0)
                   /\ NumGt(ext[m].v, Int2Num(100)) => sub[m] = JInt(100)
\* fluency 5500 contributes the sub-score 100: the score is 76.
C23_Witness ==
    /\ Done
    /\ results = JObj("fluency" :> JInt(5500))
    /\ sub.fluency = JInt(100)
    /\ acc.n = 1 /\ acc.w = weights.fluency
    /\ overallScore = JInt(76)


\* C26: generateSuggestions returns exactly four tips for every input and
\* every score: the tip of the score band, then Vocal Clarity, Confidence
\* Building and Engagement; Speaking Pace and Voice Projection are never among
\* them, whatever keys the record has.
C26_BandTip ==
    IF NumLt(overallScore.v, Int2Num(60)) THEN "Focus on Fundamentals"
    ELSE IF NumLt(overallScore.v, Int2Num(80)) THEN "Vocal Clarity"
    ELSE "Advanced Techniques"
C26_Returned == generateSuggestions(results, overallScore)
C25_NotRecordingWhileAnalyzing ==
    /\ ~(recorder.isRecording /\ recorder.isAnalyzing)
    /\ recorder.isRecording => recorder.stopEvents = 0 /\ recorder.requests = 0


\* C24: every analysis request that is started (handleAnalyze with a file
\* selected, analyzeAudio in the recorder) sets isAnalyzing back to false once
\* the network call completes or fails, and its completion reports exactly
\* one outcome: the response data as results, or an error message;
\* handleAnalyze without a selected file changes no state.
C24_UploadFailures == {JStr(s_failedPrefix \o errorMessage) : errorMessage \in FetchErrors}
C24_LiveFailures == {JStr(s_failedRecording \o errorMessage) : errorMessage \in FetchErrors}
\* The step that ends the request of handleAnalyze.
C24_UploadCompletes ==
    request = "pending" /\ request' = "none" =>
        /\ ~isAnalyzing'
        /\ (results' # results) # (error' # error)
        /\ \/ results' \in Responses /\ error' = error
           \/ error' \in C24_UploadFailures /\ results' = results
\* The step that ends a request of analyzeAudio.
C24_LiveCompletes ==
    recorder'.requests < recorder.requests =>
        /\ ~recorder'.isAnalyzing
        /\ \/ results' \in LiveResults /\ error' = Null
           \/ error' \in C24_LiveFailures /\ results' = Null
C24_NoFileNoChange == handleAnalyze /\ ~Truthy(file) => UNCHANGED vars
C24_RequestsComplete ==
    /\ (request = "pending") ~> (request = "none" /\ ~isAnalyzing)
    /\ (recorder.requests > 0) ~> ~recorder.isAnalyzing
    /\ [][C24_UploadCompletes /\ C24_LiveCompletes /\ C24_NoFileNoChange]_vars
\* An upload has failed: the message is reported and isAnalyzing is false
\* again.
C24_Witness ==
    /\ request = "none" /\ ~isAnalyzing
    /\ Truthy(file)
    /\ error = JStr(s_failedPrefix \o s_httpError)
    /\ results = Null
====
